---------------------------- MODULE Spec2Model ----------------------------
(***************************************************************************)
(* A model of stpro: a SOCKS5 / HTTP CONNECT forward proxy that desyncs    *)
(* the client->target byte stream (src/src/desync.rs, src/src/packets.rs,  *)
(* src/src/proxy.rs).                                                      *)
(*                                                                         *)
(* Bytes are the integers 0..255.  A Rust slice or Vec<u8> is a sequence;  *)
(* the Rust index i is the sequence index i + 1, and the Rust range        *)
(* [a..b] is SubSeq(s, a + 1, b).                                          *)
(***************************************************************************)
EXTENDS Integers, Sequences, FiniteSets, TLC

(***************************************************************************)
(* Bounds of the model.                                                    *)
(***************************************************************************)
\* Width, in bits, at which the i64 of SplitConfig.offset is modelled.  All
\* buffer lengths and inspected offsets of the model stay far below
\* 2^(IntBits-1), as the real ones (at most 8192 per read) stay below 2^63.
IntBits == 16
\* Largest total number of rules over the split, disorder and fake lists.
MaxRules == 2
\* Largest NMETHODS a client of the model sends in its SOCKS5 greeting.
MaxMethods == 3
\* The number of bytes before its end at which a long request is taken up.
CapWindow == 8
\* The number of clients that connect and of accept calls that fail.
MaxConns == 3
MaxAcceptErrors == 2
\* The longest payload of the TLS records handed to split_tls_record.
MaxPayload == 8

(***************************************************************************)
(* Option<usize>                                                           *)
(***************************************************************************)
None == [some |-> FALSE, val |-> 0]
Some(x) == [some |-> TRUE, val |-> x]

(***************************************************************************)
(* Slices                                                                  *)
(***************************************************************************)
\* buffer[i] of the source (0-based).
At(buffer, i) == buffer[i + 1]
\* &buffer[a..b] of the source.
Slice(buffer, a, b) == SubSeq(buffer, a + 1, b)
\* u16::from_be_bytes([hi, lo])
U16(hi, lo) == hi * 256 + lo

Min(a, b) == IF a <= b THEN a ELSE b
Max(a, b) == IF a >= b THEN a ELSE b

RECURSIVE Flatten(_)
\* The bytes of a sequence of segments, in order.
Flatten(segs) ==
    IF segs = <<>> THEN <<>> ELSE Head(segs) \o Flatten(Tail(segs))

Reverse(s) == [i \in 1..Len(s) |-> s[Len(s) + 1 - i]]

IsPrefix(p, s) == Len(p) <= Len(s) /\ SubSeq(s, 1, Len(p)) = p

\* F applied to the value of e, which is computed once.
Let(e, F(_)) == CHOOSE y \in {F(x) : x \in {e}} : TRUE

(***************************************************************************)
(* packets.rs                                                              *)
(***************************************************************************)
is_tls_chello(buffer) ==
    IF Len(buffer) < 5 THEN FALSE
    ELSE LET content_type == At(buffer, 0)
             version == U16(At(buffer, 1), At(buffer, 2))
         IN  content_type = 22 /\ version >= 769 /\ version <= 772

RECURSIVE SniExtensions(_, _, _)
\* The while loop of find_sni_offset over the extensions block.
SniExtensions(buffer, offset, extensions_end) ==
    IF ~(offset < extensions_end /\ offset < Len(buffer) - 4) THEN None
    ELSE
      LET ext_type == U16(At(buffer, offset), At(buffer, offset + 1))
          o1 == offset + 2
      IN
      IF Len(buffer) < o1 + 2 THEN None
      ELSE
        LET ext_len == U16(At(buffer, o1), At(buffer, o1 + 1))
            o2 == o1 + 2
        IN
        IF ext_type = 0
        THEN IF Len(buffer) < o2 + 3 THEN None
             ELSE LET o3 == o2 + 2
                  IN  IF At(buffer, o3) = 0
                      THEN IF Len(buffer) >= (o3 + 1) + 2
                           THEN Some((o3 + 1) + 2)
                           ELSE None
                      ELSE None
        ELSE SniExtensions(buffer, o2 + ext_len, extensions_end)

find_sni_offset(buffer) ==
    IF ~is_tls_chello(buffer) \/ Len(buffer) < 43 THEN None
    ELSE
      \* record header 5, handshake header 4, version 2, random 32
      LET o1 == 5 + 4 + 2 + 32
      IN
      IF Len(buffer) < o1 + 1 THEN None
      ELSE
        LET session_id_len == At(buffer, o1)
            o2 == o1 + 1 + session_id_len
        IN
        IF Len(buffer) < o2 + 2 THEN None
        ELSE
          LET cipher_suites_len == U16(At(buffer, o2), At(buffer, o2 + 1))
              o3 == o2 + 2 + cipher_suites_len
          IN
          IF Len(buffer) < o3 + 1 THEN None
          ELSE
            LET compression_len == At(buffer, o3)
                o4 == o3 + 1 + compression_len
            IN
            IF Len(buffer) < o4 + 2 THEN None
            ELSE
              LET extensions_len == U16(At(buffer, o4), At(buffer, o4 + 1))
                  o5 == o4 + 2
              IN  SniExtensions(buffer, o5, o5 + extensions_len)

\* A run of find_sni_offset that returned r after reading the indices rs.
Returned(rs, r) == [reads |-> rs, panicked |-> FALSE, result |-> r]
\* A run that panicked on its last read, an index out of bounds.
Panicked(rs) == [reads |-> rs, panicked |-> TRUE, result |-> None]

\* buffer[i], bounds-checked as an index expression of a slice is: the run
\* goes on as K with the byte read, or panics.
Index(buffer, rs, i, K(_, _)) ==
    IF i >= 0 /\ i < Len(buffer)
    THEN K(At(buffer, i), Append(rs, i))
    ELSE Panicked(Append(rs, i))

\* u16::from_be_bytes([buffer[i], buffer[i + 1]])
IndexU16(buffer, rs, i, K(_, _)) ==
    Index(buffer, rs, i, LAMBDA hi, r1 :
        Index(buffer, r1, i + 1, LAMBDA lo, r2 : K(U16(hi, lo), r2)))

\* Mutant of TooShort: every length check is off by one.
TooShortByOne(len, need) == len < need - 1

\* `buffer.len() < offset + k`, the check before each read.
TooShort(len, need) == len < need

\* Mutant of IsHostName: the name type is not looked at.
IsHostNameAny(name_type) == TRUE

\* `buffer[offset] == 0x00`: the entry is a host name.
IsHostName(name_type) == name_type = 0

RECURSIVE SniExtensionsRun(_, _, _, _)
\* The while loop of find_sni_offset, with the indices it reads.
SniExtensionsRun(buffer, rs, offset, extensions_end) ==
    IF ~(offset < extensions_end /\ offset < Len(buffer) - 4) THEN Returned(rs, None)
    ELSE
      IndexU16(buffer, rs, offset, LAMBDA ext_type, r1 :
        LET o1 == offset + 2
        IN
        IF TooShort(Len(buffer), o1 + 2) THEN Returned(r1, None)
        ELSE
          IndexU16(buffer, r1, o1, LAMBDA ext_len, r2 :
            LET o2 == o1 + 2
            IN
            IF ext_type = 0
            THEN IF TooShort(Len(buffer), o2 + 3) THEN Returned(r2, None)
                 ELSE LET o3 == o2 + 2
                      IN  Index(buffer, r2, o3, LAMBDA name_type, r3 :
                            IF IsHostName(name_type)
                            THEN IF Len(buffer) >= (o3 + 1) + 2
                                 THEN Returned(r3, Some((o3 + 1) + 2))
                                 ELSE Returned(r3, None)
                            ELSE Returned(r3, None))
            ELSE SniExtensionsRun(buffer, r2, o2 + ext_len, extensions_end)))

\* find_sni_offset with the indices it reads, is_tls_chello's included.
SniRun(buffer) ==
    IF Len(buffer) < 5 THEN Returned(<<>>, None)
    ELSE
      Index(buffer, <<>>, 0, LAMBDA content_type, r0 :
      IndexU16(buffer, r0, 1, LAMBDA version, r1 :
        IF ~(content_type = 22 /\ version >= 769 /\ version <= 772)
           \/ Len(buffer) < 43
        THEN Returned(r1, None)
        ELSE
          LET offset == 5
          IN
          IF TooShort(Len(buffer), offset + 4) THEN Returned(r1, None)
          ELSE
            LET o1 == offset + 4 + 2 + 32
            IN
            IF TooShort(Len(buffer), o1 + 1) THEN Returned(r1, None)
            ELSE
              Index(buffer, r1, o1, LAMBDA session_id_len, r2 :
                LET o2 == o1 + 1 + session_id_len
                IN
                IF TooShort(Len(buffer), o2 + 2) THEN Returned(r2, None)
                ELSE
                  IndexU16(buffer, r2, o2, LAMBDA cipher_suites_len, r3 :
                    LET o3 == o2 + 2 + cipher_suites_len
                    IN
                    IF TooShort(Len(buffer), o3 + 1) THEN Returned(r3, None)
                    ELSE
                      Index(buffer, r3, o3, LAMBDA compression_len, r4 :
                        LET o4 == o3 + 1 + compression_len
                        IN
                        IF TooShort(Len(buffer), o4 + 2) THEN Returned(r4, None)
                        ELSE
                          IndexU16(buffer, r4, o4, LAMBDA extensions_len, r5 :
                            LET o5 == o4 + 2
                            IN  SniExtensionsRun(buffer, r5, o5,
                                                 o5 + extensions_len)))))))

\* The inspector has not been called.
SniNotRun == [called |-> FALSE, run |-> Returned(<<>>, None)]
HostNotRun == [called |-> FALSE, result |-> None]
\* Option<(String, u16)>
NoTarget == [some |-> FALSE, host |-> <<>>, port |-> 0]
SomeTarget(h, p) == [some |-> TRUE, host |-> h, port |-> p]
ConnectNotRun == [called |-> FALSE, result |-> NoTarget]

\* The low 16 bits of a usize, which `(x >> 8) as u8` and `x as u8` store.
Low16(x) == ((x % 65536) + 65536) % 65536

\* split_tls_record(&mut buffer, position) in a build that checks integer
\* overflow (checks) or wraps: how the call ends ("invalid_input", "ok" or
\* "panicked") and the buffer it leaves. `position - 5` underflows for a
\* position below 5, and `original_len - first_part_len` for a first part
\* longer than the record's length field says; a checked build panics
\* there, before it writes, and a wrapping build goes on with the wrapped
\* values, of which the two length bytes keep the low 16 bits.
split_tls_record(buffer, position, checks) ==
    IF Len(buffer) < position + 5
    THEN [status |-> "invalid_input", buffer |-> buffer]
    ELSE
      LET original_len == U16(At(buffer, 3), At(buffer, 4))
          underflows == position < 5 \/ position - 5 > original_len
          first_part_len == Low16(position - 5)
          second_part_len == Low16(original_len - (position - 5))
          new_header == <<At(buffer, 0), At(buffer, 1), At(buffer, 2),
                          second_part_len \div 256, second_part_len % 256>>
          updated == [buffer EXCEPT ![3 + 1] = first_part_len \div 256,
                                    ![4 + 1] = first_part_len % 256]
      IN  IF underflows /\ checks
          THEN [status |-> "panicked", buffer |-> buffer]
          ELSE [status |-> "ok",
                buffer |-> Slice(updated, 0, position) \o new_header
                           \o Slice(updated, position, Len(updated))]

RecordNotRun == [called |-> FALSE, position |-> 0, status |-> "ok", buffer |-> <<>>]
\* The request line was not built from a description.
NoReq == [prefix |-> <<>>, host |-> <<>>, colon |-> FALSE, port |-> <<>>,
          tail |-> <<>>]
\* The buffer was not built from a description.
NoHello == [ct |-> 0, ver |-> 0, rnd |-> 0, sid |-> <<>>, cs |-> <<>>,
            comp |-> <<>>, exts |-> <<>>]
NoSample == [kind |-> "none", hello |-> NoHello, cut |-> 0, poke |-> <<>>,
             text |-> <<>>, req |-> NoReq]

\* A UTF-8 continuation byte.
IsCont(b) == b >= 128 /\ b <= 191

\* The number of bytes of the character a lead byte announces; 0 for a byte
\* that starts no character (a continuation byte, 0xC0, 0xC1, 0xF5..0xFF).
Utf8Width(b0) ==
    IF b0 < 128 THEN 1
    ELSE IF b0 >= 194 /\ b0 <= 223 THEN 2
    ELSE IF b0 >= 224 /\ b0 <= 239 THEN 3
    ELSE IF b0 >= 240 /\ b0 <= 244 THEN 4
    ELSE 0

\* The second byte b1 is in the range the lead byte b0 allows (no overlong
\* forms, no surrogates, nothing above U+10FFFF).
Utf8Second(b0, b1) ==
    IF b0 = 224 THEN b1 >= 160 /\ b1 <= 191
    ELSE IF b0 = 237 THEN b1 >= 128 /\ b1 <= 159
    ELSE IF b0 = 240 THEN b1 >= 144 /\ b1 <= 191
    ELSE IF b0 = 244 THEN b1 >= 128 /\ b1 <= 143
    ELSE IsCont(b1)

\* A well-formed character starts at byte i.
Utf8CharAt(buffer, i) ==
    LET w == Utf8Width(At(buffer, i))
    IN  /\ w > 0
        /\ i + w <= Len(buffer)
        /\ w > 1 => Utf8Second(At(buffer, i), At(buffer, i + 1))
        /\ \A k \in 2..(w - 1) : IsCont(At(buffer, i + k))

\* The continuation byte j is one of the bytes a lead byte before it
\* announces.
Utf8Within(buffer, j) ==
    \E k \in 1..3 :
        /\ j - k >= 0
        /\ Utf8Width(At(buffer, j - k)) > k
        /\ \A m \in 1..(k - 1) : IsCont(At(buffer, j - m))

\* std::str::from_utf8(buffer).is_ok(): every byte starts a well-formed
\* character or continues one.
IsUtf8(buffer) ==
    \A i \in 0..(Len(buffer) - 1) :
        IF IsCont(At(buffer, i)) THEN Utf8Within(buffer, i) ELSE Utf8CharAt(buffer, i)

\* "Host: "
HostHeader == <<72, 111, 115, 116, 58, 32>>

\* str::find: the byte position of the first occurrence of pat in s.
StrFind(s, pat) ==
    LET hits == {i \in 0..(Len(s) - Len(pat)) : Slice(s, i, i + Len(pat)) = pat}
    IN  IF hits = {} THEN None
        ELSE Some(CHOOSE i \in hits : \A j \in hits : i <= j)

find_http_host_offset(buffer) ==
    IF ~IsUtf8(buffer) THEN None
    ELSE LET pos == StrFind(buffer, HostHeader)
         IN  IF pos.some THEN Some(pos.val + Len(HostHeader)) ELSE None


(***************************************************************************)
(* i64 arithmetic of calculate_offset                                      *)
(***************************************************************************)
I64Min == -(2 ^ (IntBits - 1))
I64Max == (2 ^ (IntBits - 1)) - 1

\* The mathematical result x does not fit the integer type.
Overflows(x) == x < I64Min \/ x > I64Max
\* Two's-complement wrap-around of x, the result of + and - when the build
\* does not check for overflow.
Wrap(x) == ((x - I64Min) % (2 ^ IntBits)) + I64Min
\* Rust's integer division, which truncates toward zero.
TruncDiv(a, b) == IF a >= 0 THEN a \div b ELSE -((-a) \div b)

(***************************************************************************)
(* config.rs                                                               *)
(***************************************************************************)
\* SplitFlags
Flags(s, h, e, m) == [sni |-> s, host |-> h, end |-> e, middle |-> m]
NoFlags == Flags(FALSE, FALSE, FALSE, FALSE)
AllFlags == [sni : BOOLEAN, host : BOOLEAN, end : BOOLEAN, middle : BOOLEAN]
\* SplitConfig; repeats and skip are never read by the engine and are left out.
SplitConfig(o, f) == [offset |-> o, flags |-> f]
\* Option<Vec<u8>>
NoData == [some |-> FALSE, val |-> <<>>]
SomeData(d) == [some |-> TRUE, val |-> d]
\* FakeConfig; ttl is never read by the engine and is left out.
FakeConfig(r, d) == [split |-> r, data |-> d]

(***************************************************************************)
(* State                                                                   *)
(***************************************************************************)
VARIABLES
    overflow_checks, \* the build checks integer overflow (debug profile) or wraps
    config,          \* DesyncEngine.config: [split, disorder, fake]
    buffer,          \* the buffer argument of apply_desync / calculate_offset
    is_tls,          \* apply_desync: let is_tls
    epc,             \* position of the apply_desync call
    idx,             \* loop index of apply_split / apply_disorder
    last_pos,        \* apply_split: let mut last_pos
    total_sent,      \* let mut total_sent; the returned count once result = "ok"
    positions,       \* apply_disorder: let mut positions
    stream,          \* the segments whose write_all on the stream succeeded
    partial,         \* the bytes of a failed write_all that reached the stream
    result,          \* "none" (running), "ok", "err" (io::Error), "panic"
    split_cfg,       \* the rule handed to calculate_offset on its own
    offset_res       \* what that call of calculate_offset returned

\* One connection: handle_client / handle_http_connect of proxy.rs.
VARIABLES
    hpc,             \* position of the connection handler
    proto,           \* "none", "socks5" or "http": the path the sniff chose
    client_in,       \* the bytes the client sends that are not yet read
    client_read,     \* the bytes read from the client so far
    client_out,      \* the byte strings whose write_all on the client succeeded
    client_partial,  \* the bytes of a failed write_all that reached the client
    n_methods,       \* let n_methods
    methods,         \* let mut methods
    request,         \* let mut request: ver, cmd, rsv, atyp
    addr,            \* the address bytes read (addr / domain)
    target_addr,     \* the address to dial: [host, port, resolved]
    dials,           \* the number of TcpStream::connect calls made
    target_open,     \* TcpStream::connect returned a connection (let target)
    req_buffer,      \* handle_http_connect: let mut buffer
    last_four,       \* handle_http_connect: let mut last_four
    herr,            \* "none", or the error the handler returned
    c2t,             \* the client->target task: "idle", "running" (at its read),
                     \* "applying" (in apply_desync), "ok", "err", "panic"
    t2c              \* the target->client task: "idle", "running" (at its read),
                     \* "writing", "ok", "err"

VARIABLES
    fwd_read,        \* forward_with_desync: the byte strings read from the client
    c2t_last,        \* forward_with_desync: the outcome of its last read
    target_out,      \* the segments the finished apply_desync calls wrote to the target
    target_in,       \* the bytes the target sends that are not yet read
    target_read,     \* forward_normal: the byte strings read from the target
    t2c_last,        \* forward_normal: the outcome of its last read
    t2c_buf          \* forward_normal: &buffer[..n] of the read under way

VARIABLES
    resolved,        \* apply_desync: the offsets calculate_offset has returned to it
    ranges           \* apply_desync: the ranges <<start, end>> of the slices
                     \* &buffer[start..end] it has handed to write_all

VARIABLES
    srv,             \* ProxyServer::run: "accepting" (in its loop) or "exited"
    arrived,         \* the number of clients that have connected to the listener
    handlers,        \* the spawned handle_client tasks: "running", "ok", "failed", "panicked"
    accept_errs      \* the number of accept calls that returned an error

VARIABLES
    sample,          \* what the buffer handed to the inspector was built from
    sni_run,         \* find_sni_offset(&buffer): whether called, and its run
    host_res,        \* find_http_host_offset(&buffer): whether called, and its result
    connect_res,     \* parse_http_connect(&buffer): whether called, and its result
    record_res       \* split_tls_record(&mut buffer, position): whether called,
                     \* the position, how it ended and the buffer it left

proxy_vars == <<hpc, proto, client_in, client_read, client_out, client_partial,
                n_methods, methods, request, addr, target_addr, dials, target_open,
                req_buffer, last_four, herr, c2t, t2c,
                fwd_read, c2t_last, target_out, target_in, target_read, t2c_last,
                t2c_buf, srv, arrived, handlers, accept_errs,
                sample, sni_run, host_res, connect_res, record_res>>
server_vars == <<srv, arrived, handlers, accept_errs>>
packets_vars == <<sample, sni_run, host_res, connect_res, record_res>>
forward_vars == <<fwd_read, c2t_last, target_out, target_in, target_read, t2c_last,
                  t2c_buf>>
engine_vars == <<overflow_checks, config, buffer, is_tls, epc, idx, last_pos,
                 total_sent, positions, stream, partial, result,
                 resolved, ranges>>
offset_vars == <<split_cfg, offset_res>>
vars == <<engine_vars, offset_vars, proxy_vars>>

(***************************************************************************)
(* desync.rs: calculate_offset                                             *)
(***************************************************************************)
\* Returns [panic, pos]: panic is set when an addition or subtraction
\* overflows in a build with overflow checks; pos is the Ok value otherwise.
\* The arithmetic of calculate_offset on the results sni and host of the
\* two lookups.
OffsetArith(cfg, len, sni, host) ==
    LET o0 == cfg.offset
        \* if offset < 0 { offset = buffer.len() as i64 + offset; }
        o1 == IF o0 < 0 THEN len + o0 ELSE o0
        \* offset += sni_offset as i64;
        s2 == IF sni.some THEN o1 + sni.val ELSE o1
        o2 == Wrap(s2)
        \* offset += host_offset as i64;
        s3 == IF host.some THEN o2 + host.val ELSE o2
        o3 == Wrap(s3)
        \* offset = offset / 2;
        o4 == IF cfg.flags.middle THEN TruncDiv(o3, 2) ELSE o3
        \* offset = buffer.len() as i64 - offset;
        s5 == IF cfg.flags.end THEN len - o4 ELSE o4
        o5 == Wrap(s5)
        \* let pos = offset.max(0) as usize; Ok(pos.min(buffer.len()))
        pos == Max(o5, 0)
    IN  [panic |-> overflow_checks /\ (Overflows(s2) \/ Overflows(s3) \/ Overflows(s5)),
         pos |-> Min(pos, len)]

calculate_offset(cfg, buf, tls) ==
    Let(IF cfg.flags.sni /\ tls THEN find_sni_offset(buf) ELSE None,
        LAMBDA sni :
          Let(IF cfg.flags.host THEN find_http_host_offset(buf) ELSE None,
              LAMBDA host : OffsetArith(cfg, Len(buf), sni, host)))

(***************************************************************************)
(* Inputs: buffers                                                         *)
(***************************************************************************)
Rep(n, b) == [i \in 1..n |-> b]

\* A TLS 1.x ClientHello record with random bytes rnd, an empty session id,
\* one cipher suite, one compression method and the extensions block exts.
ClientHello(rnd, exts) ==
    LET body == <<3, 3>> \o Rep(32, rnd) \o <<0>> \o <<0, 2, 19, 1>> \o <<1, 0>>
                \o <<Len(exts) \div 256, Len(exts) % 256>> \o exts
        hs == <<1, 0, Len(body) \div 256, Len(body) % 256>> \o body
    IN  <<22, 3, 1, Len(hs) \div 256, Len(hs) % 256>> \o hs

\* The server_name extension carrying one entry of name type nt.
SniExt(nt, name) ==
    <<0, 0, 0, Len(name) + 5, 0, Len(name) + 3, nt, 0, Len(name)>> \o name

\* "ab"
NameAb == <<97, 98>>
\* "Host: x"
NameHost == HostHeader \o <<120>>

BufEmpty == <<>>
BufOne == <<65>>
BufFive == <<1, 2, 3, 4, 5>>
\* "G\nHost: ab": an HTTP-like text with a Host header at offset 8.
BufHttp == <<71, 10>> \o HostHeader \o NameAb
\* The same text after a byte that is not UTF-8.
BufHttpBad == <<255>> \o HostHeader \o NameAb
\* A ClientHello with SNI "ab" whose random bytes are not UTF-8.
BufTls == ClientHello(255, SniExt(0, NameAb))
\* A ClientHello, all bytes ASCII, whose SNI host name reads "Host: x".
BufTlsHost == ClientHello(7, SniExt(0, NameHost))
\* A record header alone: a ClientHello by its first five bytes, too short to parse.
BufTlsShort == <<22, 3, 3, 0, 0>>

\* The buffers handed to calculate_offset on its own.
OffsetBuffers ==
    {BufEmpty, BufOne, BufFive, BufHttp, BufHttpBad, BufTls, BufTlsHost, BufTlsShort}
\* The buffers handed to apply_desync.
EngineBuffers == {BufEmpty, BufOne, BufFive, BufHttp, BufTlsHost}

(***************************************************************************)
(* Inputs: rules and policies                                              *)
(***************************************************************************)
\* Offsets: zero, small, beyond every buffer, negative, negative beyond every
\* buffer, and the ends of the integer type.
Offsets == {0, 1, 3, 6, 200, -2, -200, I64Max, I64Max - 3, I64Min, I64Min + 1}
\* The rules handed to calculate_offset on its own: every flag combination.
OffsetRules == {SplitConfig(o, f) : o \in Offsets, f \in AllFlags}

\* The rules of the policies handed to apply_desync.
EngineRules ==
    { SplitConfig(1, NoFlags), SplitConfig(3, NoFlags), SplitConfig(200, NoFlags),
      SplitConfig(-2, NoFlags), SplitConfig(-200, NoFlags),
      SplitConfig(1, Flags(TRUE, FALSE, FALSE, FALSE)),
      SplitConfig(2, Flags(FALSE, TRUE, FALSE, FALSE)),
      SplitConfig(1, Flags(FALSE, FALSE, TRUE, FALSE)),
      SplitConfig(6, Flags(FALSE, FALSE, FALSE, TRUE)),
      SplitConfig(I64Max, Flags(FALSE, TRUE, FALSE, FALSE)) }

FakeDatas == {NoData, SomeData(<<>>), SomeData(<<170, 187>>), SomeData(<<170, 187, 204>>)}
FakeRules ==
    { FakeConfig(r, d) :
        r \in { SplitConfig(2, NoFlags),
                SplitConfig(I64Max, Flags(FALSE, TRUE, FALSE, FALSE)) },
        d \in FakeDatas }

\* DesyncConfig values with at most MaxRules rules in all; tls_rec, ttl and
\* auto are never read by the engine and are left out.
Configs ==
    UNION { { [split |-> s, disorder |-> d, fake |-> f] :
                s \in [1..n[1] -> EngineRules],
                d \in [1..n[2] -> EngineRules],
                f \in [1..n[3] -> FakeRules] } :
            n \in { m \in (0..MaxRules) \X (0..MaxRules) \X (0..MaxRules) :
                      m[1] + m[2] + m[3] <= MaxRules } }

(***************************************************************************)
(* The stream written by the engine                                        *)
(***************************************************************************)
\* How many bytes of seg a failing write_all may have passed on before the
\* error: none, or all but the last.  write_all of an empty slice performs
\* no write and cannot fail.
PartialLens(seg) == IF seg = <<>> THEN {} ELSE {0, Len(seg) - 1}

\* The outcomes of `stream.write_all(seg).await?; stream.flush().await?`.
WriteOutcomes(seg) ==
    {[kind |-> "ok", sent |-> Len(seg)], [kind |-> "flush_err", sent |-> Len(seg)]}
    \cup {[kind |-> "write_err", sent |-> k] : k \in PartialLens(seg)}

\* Mutant of Propagates: the error of a write or flush is dropped and the
\* call goes on.
PropagatesNever(o) == FALSE

\* The `?` after write_all and flush: an error ends the call.
Propagates(o) == o.kind # "ok"

StreamAfter(seg, o) == IF o.kind = "write_err" THEN stream ELSE Append(stream, seg)
PartialAfter(seg, o) == IF o.kind = "write_err" THEN SubSeq(seg, 1, o.sent) ELSE <<>>

(***************************************************************************)
(* desync.rs: apply_desync                                                 *)
(***************************************************************************)
\* Mutant of SelectTechnique: the disorder list is looked at before the
\* split list.
SelectDisorderFirst(cfg) ==
    IF cfg.disorder # <<>> THEN "disorder"
    ELSE IF cfg.split # <<>> THEN "split"
    ELSE IF cfg.fake # <<>> THEN "fake"
    ELSE "default"

\* The technique apply_desync hands the buffer to.
SelectTechnique(cfg) ==
    IF cfg.split # <<>> THEN "split"
    ELSE IF cfg.disorder # <<>> THEN "disorder"
    ELSE IF cfg.fake # <<>> THEN "fake"
    ELSE "default"

ApplyDesync ==
    /\ epc = "apply_desync"
    /\ IF buffer = <<>>
       THEN /\ epc' = "done"
            /\ result' = "ok"
            /\ UNCHANGED <<is_tls, idx, positions>>
       ELSE /\ is_tls' = is_tls_chello(buffer)
            /\ epc' = SelectTechnique(config)
            /\ idx' = 1
            /\ positions' = <<0>>
            /\ UNCHANGED result
    /\ total_sent' = 0
    /\ last_pos' = 0
    /\ UNCHANGED <<overflow_checks, config, buffer, stream, partial, resolved, ranges,
                   offset_vars, proxy_vars>>

\* The default of apply_desync: one write of the whole buffer.
DefaultSend ==
    /\ epc = "default"
    /\ \E o \in WriteOutcomes(buffer) :
         /\ stream' = StreamAfter(buffer, o)
         /\ partial' = PartialAfter(buffer, o)
         /\ result' = IF Propagates(o) THEN "err" ELSE "ok"
         /\ total_sent' = IF Propagates(o) THEN total_sent ELSE Len(buffer)
    /\ ranges' = Append(ranges, <<0, Len(buffer)>>)
    /\ epc' = "done"
    /\ UNCHANGED <<overflow_checks, config, buffer, is_tls, idx, last_pos, positions,
                   resolved, offset_vars, proxy_vars>>

(***************************************************************************)
(* desync.rs: apply_split                                                  *)
(***************************************************************************)
\* Mutant of SplitCut: a position at or before the last cut is cut at too.
SplitCutBackwards(pos, last, buf) == pos <= Len(buf)

\* if pos > last_pos && pos <= buffer.len()
SplitCut(pos, last, buf) == pos > last /\ pos <= Len(buf)
\* Mutant of SplitChunk: the chunk stops one byte short of the cut.
SplitChunkShort(buf, last, pos) == Slice(buf, last, pos - 1)

\* &buffer[last_pos..pos]
SplitChunk(buf, last, pos) == Slice(buf, last, pos)

\* One iteration of `for split_cfg in &self.config.split`.
SplitIter ==
    /\ epc = "split"
    /\ idx <= Len(config.split)
    /\ \E r \in {calculate_offset(config.split[idx], buffer, is_tls)} :
         LET seg == SplitChunk(buffer, last_pos, r.pos)
         IN
           IF r.panic
           THEN /\ epc' = "done"
                /\ result' = "panic"
                /\ UNCHANGED <<idx, last_pos, total_sent, stream, partial, resolved,
                               ranges>>
           ELSE IF SplitCut(r.pos, last_pos, buffer)
           THEN \E o \in WriteOutcomes(seg) :
                  /\ resolved' = Append(resolved, r.pos)
                  /\ ranges' = Append(ranges, <<last_pos, r.pos>>)
                  /\ stream' = StreamAfter(seg, o)
                  /\ partial' = PartialAfter(seg, o)
                  /\ IF Propagates(o)
                     THEN /\ epc' = "done"
                          /\ result' = "err"
                          /\ UNCHANGED <<idx, last_pos, total_sent>>
                     ELSE /\ total_sent' = total_sent + (r.pos - last_pos)
                          /\ last_pos' = r.pos
                          /\ idx' = idx + 1
                          /\ UNCHANGED <<epc, result>>
           ELSE /\ idx' = idx + 1
                /\ resolved' = Append(resolved, r.pos)
                /\ UNCHANGED <<epc, result, last_pos, total_sent, stream, partial,
                               ranges>>
    /\ UNCHANGED <<overflow_checks, config, buffer, is_tls, positions, offset_vars, proxy_vars>>

\* After the loop: the remaining data, then Ok(total_sent).
SplitRest ==
    /\ epc = "split"
    /\ idx > Len(config.split)
    /\ LET seg == Slice(buffer, last_pos, Len(buffer))
       IN  IF last_pos < Len(buffer)
           THEN \E o \in WriteOutcomes(seg) :
                  /\ stream' = StreamAfter(seg, o)
                  /\ partial' = PartialAfter(seg, o)
                  /\ result' = IF Propagates(o) THEN "err" ELSE "ok"
                  /\ total_sent' = IF Propagates(o) THEN total_sent
                                   ELSE total_sent + (Len(buffer) - last_pos)
           ELSE /\ result' = "ok"
                /\ UNCHANGED <<stream, partial, total_sent>>
    /\ ranges' = IF last_pos < Len(buffer)
                 THEN Append(ranges, <<last_pos, Len(buffer)>>)
                 ELSE ranges
    /\ epc' = "done"
    /\ UNCHANGED <<overflow_checks, config, buffer, is_tls, idx, last_pos, positions,
                   resolved, offset_vars, proxy_vars>>

(***************************************************************************)
(* desync.rs: apply_disorder                                               *)
(***************************************************************************)
RECURSIVE Insert(_, _)
Insert(x, sorted) ==
    IF sorted = <<>> THEN <<x>>
    ELSE IF x <= Head(sorted) THEN <<x>> \o sorted
    ELSE <<Head(sorted)>> \o Insert(x, Tail(sorted))

RECURSIVE Sort(_)
\* positions.sort()
Sort(s) == IF s = <<>> THEN <<>> ELSE Insert(Head(s), Sort(Tail(s)))

\* Mutant of Dedup: equal positions are kept.
DedupNothing(s) == s

RECURSIVE Dedup(_)
\* positions.dedup(): consecutive equal elements collapse to one.
Dedup(s) ==
    IF Len(s) < 2 THEN s
    ELSE IF s[1] = s[2] THEN Dedup(Tail(s))
    ELSE <<s[1]>> \o Dedup(Tail(s))

RECURSIVE DisorderCollect(_, _, _, _)
\* `for disorder_cfg in &self.config.disorder` from rule i on, with the
\* positions pushed so far: [panic, positions].
DisorderCollect(cfgs, i, buf, acc) ==
    IF i > Len(cfgs) THEN [panic |-> FALSE, positions |-> acc]
    ELSE Let(calculate_offset(cfgs[i], buf, is_tls),
             LAMBDA r :
               IF r.panic THEN [panic |-> TRUE, positions |-> acc]
               ELSE DisorderCollect(cfgs, i + 1, buf,
                                    IF r.pos <= Len(buf) THEN Append(acc, r.pos) ELSE acc))

RECURSIVE DisorderResolved(_, _, _)
\* The offsets calculate_offset returns in that loop from rule i on, up to
\* the rule on which it panics.
DisorderResolved(cfgs, i, buf) ==
    IF i > Len(cfgs) THEN <<>>
    ELSE Let(calculate_offset(cfgs[i], buf, is_tls),
             LAMBDA r :
               IF r.panic THEN <<>>
               ELSE <<r.pos>> \o DisorderResolved(cfgs, i + 1, buf))

\* The positions vector once the rules are resolved: the end is pushed, then
\* sort and dedup.
DisorderPositions(acc, buf) == Dedup(Sort(Append(acc, Len(buf))))

\* The index the sending loop `for i in (1..positions.len()).rev()` starts at.
DisorderFirst(pos) == Len(pos) - 1
\* The index it takes after i.
DisorderNextIndex(i) == i - 1

\* The resolution of all rules and the ordering of the positions, which
\* come before the first write.
DisorderResolve ==
    /\ epc = "disorder"
    /\ \E c \in {DisorderCollect(config.disorder, 1, buffer, positions)} :
           IF c.panic
           THEN /\ epc' = "done"
                /\ result' = "panic"
                /\ UNCHANGED <<positions, idx>>
           ELSE /\ positions' = DisorderPositions(c.positions, buffer)
                /\ idx' = DisorderFirst(positions')
                /\ epc' = "disorder_send"
                /\ UNCHANGED result
    /\ resolved' = resolved \o DisorderResolved(config.disorder, 1, buffer)
    /\ UNCHANGED <<overflow_checks, config, buffer, is_tls, last_pos, total_sent,
                   stream, partial, ranges, offset_vars, proxy_vars>>

\* One iteration of the sending loop; Ok(total_sent) after the last.
DisorderIter ==
    /\ epc = "disorder_send"
    /\ idx >= 1
    /\ LET start == At(positions, idx - 1)
           end == At(positions, idx)
           seg == Slice(buffer, start, end)
       IN  \E o \in WriteOutcomes(seg) :
             /\ ranges' = Append(ranges, <<start, end>>)
             /\ stream' = StreamAfter(seg, o)
             /\ partial' = PartialAfter(seg, o)
             /\ IF Propagates(o)
                THEN /\ epc' = "done"
                     /\ result' = "err"
                     /\ UNCHANGED <<idx, total_sent>>
                ELSE /\ total_sent' = total_sent + (end - start)
                     /\ idx' = DisorderNextIndex(idx)
                     /\ epc' = IF idx' >= 1 THEN "disorder_send" ELSE "done"
                     /\ result' = IF idx' >= 1 THEN "none" ELSE "ok"
    /\ UNCHANGED <<overflow_checks, config, buffer, is_tls, last_pos, positions,
                   resolved, offset_vars, proxy_vars>>

(***************************************************************************)
(* desync.rs: apply_fake                                                   *)
(***************************************************************************)
\* Mutant of FakeUsable: a decoy as long as the offset is not used.
FakeUsableShorter(data, pos) == data.some /\ Len(data.val) < pos

\* if let Some(fake_data) = &fake_cfg.data { if fake_data.len() <= pos
FakeUsable(data, pos) == data.some /\ Len(data.val) <= pos
\* &fake_data[..fake_data.len().min(pos)]
FakeBytes(data, pos) == Slice(data.val, 0, Min(Len(data.val), pos))
\* The rule the loop `for fake_cfg in &self.config.fake` returns from.
FakeRule(cfg) == cfg.fake[1]

\* The whole buffer after the decoy, or at once when no decoy is written.
FakeReal ==
    /\ \/ epc = "fake_real" /\ UNCHANGED resolved
       \/ /\ epc = "fake"
          /\ \E r \in {calculate_offset(FakeRule(config).split, buffer, is_tls)} :
               /\ ~r.panic /\ ~FakeUsable(FakeRule(config).data, r.pos)
               /\ resolved' = Append(resolved, r.pos)
    /\ ranges' = Append(ranges, <<0, Len(buffer)>>)
    /\ \E o \in WriteOutcomes(buffer) :
         /\ stream' = StreamAfter(buffer, o)
         /\ partial' = PartialAfter(buffer, o)
         /\ result' = IF Propagates(o) THEN "err" ELSE "ok"
         /\ total_sent' = IF Propagates(o) THEN total_sent ELSE Len(buffer)
    /\ epc' = "done"
    /\ UNCHANGED <<overflow_checks, config, buffer, is_tls, idx, last_pos, positions,
                   offset_vars, proxy_vars>>

\* The first rule's offset and, when its data fits, the write of the decoy.
FakeDecoy ==
    /\ epc = "fake"
    /\ \E r \in {calculate_offset(FakeRule(config).split, buffer, is_tls)} :
         LET data == FakeRule(config).data
             seg == FakeBytes(data, r.pos)
         IN
           IF r.panic
           THEN /\ epc' = "done"
                /\ result' = "panic"
                /\ UNCHANGED <<stream, partial, resolved>>
           ELSE /\ FakeUsable(data, r.pos)
                /\ resolved' = Append(resolved, r.pos)
                /\ \E o \in WriteOutcomes(seg) :
                     /\ stream' = StreamAfter(seg, o)
                     /\ partial' = PartialAfter(seg, o)
                     /\ epc' = IF Propagates(o) THEN "done" ELSE "fake_real"
                     /\ result' = IF Propagates(o) THEN "err" ELSE "none"
    /\ UNCHANGED <<overflow_checks, config, buffer, is_tls, idx, last_pos, total_sent,
                   positions, ranges, offset_vars, proxy_vars>>

(***************************************************************************)
(* A connection handler at rest                                            *)
(***************************************************************************)
NoAddr == [host |-> <<>>, port |-> 0, resolved |-> FALSE]

\* The accept loop before any client has connected.
ServerIdle ==
    /\ srv = "accepting"
    /\ arrived = 0
    /\ handlers = <<>>
    /\ accept_errs = 0

\* The inspector before it is handed a buffer on its own.
PacketsIdle ==
    /\ sample = NoSample
    /\ sni_run = SniNotRun
    /\ host_res = HostNotRun
    /\ connect_res = ConnectNotRun
    /\ record_res = RecordNotRun

\* The locals of the two forwarding tasks before they are spawned; the
\* target has sent nothing.
ForwardIdle ==
    /\ fwd_read = <<>>
    /\ c2t_last = "none"
    /\ target_out = <<>>
    /\ target_in = <<>>
    /\ target_read = <<>>
    /\ t2c_last = "none"
    /\ t2c_buf = <<>>

\* The locals of a connection handler before its first read.
ProxyStart ==
    /\ proto = "none"
    /\ client_read = <<>>
    /\ client_out = <<>>
    /\ client_partial = <<>>
    /\ n_methods = 0
    /\ methods = <<>>
    /\ request = <<>>
    /\ addr = <<>>
    /\ target_addr = NoAddr
    /\ dials = 0
    /\ target_open = FALSE
    /\ req_buffer = <<>>
    /\ last_four = <<>>
    /\ herr = "none"
    /\ c2t = "idle"
    /\ t2c = "idle"
    /\ ForwardIdle

\* No connection is handled.
ProxyIdle == hpc = "idle" /\ client_in = <<>> /\ ProxyStart

(***************************************************************************)
(* One call of apply_desync                                                *)
(***************************************************************************)
NotCalled == [called |-> FALSE, panic |-> FALSE, pos |-> 0]
OffsetIdle == split_cfg = SplitConfig(0, NoFlags) /\ offset_res = NotCalled

EngineStart ==
    /\ is_tls = FALSE
    /\ idx = 1
    /\ last_pos = 0
    /\ total_sent = 0
    /\ positions = <<0>>
    /\ stream = <<>>
    /\ partial = <<>>
    /\ result = "none"
    /\ resolved = <<>>
    /\ ranges = <<>>

Init ==
    /\ ServerIdle
    /\ PacketsIdle
    /\ overflow_checks \in BOOLEAN
    /\ config \in Configs
    /\ buffer \in EngineBuffers
    /\ epc = "apply_desync"
    /\ EngineStart
    /\ OffsetIdle
    /\ ProxyIdle

Next ==
    \/ ApplyDesync
    \/ DefaultSend
    \/ SplitIter
    \/ SplitRest
    \/ DisorderResolve
    \/ DisorderIter
    \/ FakeDecoy
    \/ FakeReal

Spec == Init /\ [][Next]_vars

(***************************************************************************)
(* One call of calculate_offset                                            *)
(***************************************************************************)
NoConfig == [split |-> <<>>, disorder |-> <<>>, fake |-> <<>>]

\* calculate_offset as apply_split, apply_disorder and apply_fake call it:
\* is_tls is is_tls_chello(buffer), computed by apply_desync.
CalculateOffset ==
    /\ ~offset_res.called
    /\ is_tls' = is_tls_chello(buffer)
    /\ \E r \in {calculate_offset(split_cfg, buffer, is_tls')} :
         offset_res' = [called |-> TRUE, panic |-> r.panic, pos |-> r.pos]
    /\ UNCHANGED <<overflow_checks, config, buffer, epc, idx, last_pos, total_sent,
                   positions, stream, partial, result, resolved, ranges, split_cfg,
                   proxy_vars>>

OffsetInit ==
    /\ ServerIdle
    /\ PacketsIdle
    /\ overflow_checks \in BOOLEAN
    /\ config = NoConfig
    /\ buffer \in OffsetBuffers
    /\ epc = "idle"
    /\ EngineStart
    /\ split_cfg \in OffsetRules
    /\ offset_res = NotCalled
    /\ ProxyIdle

OffsetNext == CalculateOffset

OffsetSpec == OffsetInit /\ [][OffsetNext]_vars

(***************************************************************************)
(* What the techniques are to write, stated from the rules and the buffer  *)
(***************************************************************************)
\* The offset a rule resolves to on buf.
Resolved(cfg, buf) == calculate_offset(cfg, buf, is_tls_chello(buf)).pos

RECURSIVE SplitPlan(_, _, _, _)
\* Split: the rules in configured order, from rule i on, after the cut point
\* last; a rule cuts when its offset is beyond the previous cut point and
\* within the buffer; the bytes after the last cut form the final segment.
SplitPlan(rules, i, last, buf) ==
    IF i > Len(rules)
    THEN IF last < Len(buf) THEN <<Slice(buf, last, Len(buf))>> ELSE <<>>
    ELSE LET p == Resolved(rules[i], buf)
         IN  IF p > last /\ p <= Len(buf)
             THEN <<Slice(buf, last, p)>> \o SplitPlan(rules, i + 1, p, buf)
             ELSE SplitPlan(rules, i + 1, last, buf)

\* The elements of a finite set of integers in ascending order.
Ascending(S) ==
    [i \in 1..Cardinality(S) |->
        CHOOSE x \in S : Cardinality({y \in S : y < x}) = i - 1]

\* Disorder: the cut points are the resolved offsets with 0 and the length.
DisorderCuts(rules, buf) ==
    Ascending({0, Len(buf)} \cup {Resolved(rules[i], buf) : i \in 1..Len(rules)})

\* Disorder: the segments between consecutive cut points, last segment first.
DisorderPlan(rules, buf) ==
    LET c == DisorderCuts(rules, buf)
        n == Len(c)
    IN  [k \in 1..(n - 1) |-> Slice(buf, c[n - k], c[n - k + 1])]

\* Fake: the decoy of the first rule when it has one no longer than the
\* resolved offset, then the whole buffer.
FakePlan(rules, buf) ==
    LET f == rules[1]
    IN  IF f.data.some /\ Len(f.data.val) <= Resolved(f.split, buf)
        THEN <<f.data.val, buf>>
        ELSE <<buf>>

\* The segments one call is to write, by the precedence split, disorder, fake.
Plan(cfg, buf) ==
    IF cfg.split # <<>> THEN SplitPlan(cfg.split, 1, 0, buf)
    ELSE IF cfg.disorder # <<>> THEN DisorderPlan(cfg.disorder, buf)
    ELSE IF cfg.fake # <<>> THEN FakePlan(cfg.fake, buf)
    ELSE <<buf>>

\* The call of apply_desync on a non-empty buffer has returned Ok.
ReturnedOk == buffer # <<>> /\ epc = "done" /\ result = "ok"

(***************************************************************************)
(* C1: split - the segments apply_split has written when it returns Ok,    *)
(* concatenated in the order written, are the input buffer byte for byte,  *)
(* for every non-empty buffer and every list of split rules.               *)
(***************************************************************************)
C1_SplitReassembles ==
    (ReturnedOk /\ config.split # <<>>) =>
        /\ Flatten(stream) = buffer
        /\ partial = <<>>
        /\ total_sent = Len(buffer)

\* Two rules in descending offset order, of which the first cut the buffer.
C1_Witness ==
    /\ ReturnedOk
    /\ Len(config.split) = 2
    /\ config.split[1].offset > config.split[2].offset
    /\ config.split[2].offset < 0
    /\ Len(stream) = 2

(***************************************************************************)
(* C2: disorder - the positions are the ascending, duplicate-free resolved *)
(* offsets together with 0 and the buffer length, and the segments between *)
(* consecutive positions are written last segment first, each once, so     *)
(* that the written segments taken in reverse give back the buffer.        *)
(***************************************************************************)
C2_DisorderReversed ==
    (ReturnedOk /\ config.split = <<>> /\ config.disorder # <<>>) =>
        /\ positions = DisorderCuts(config.disorder, buffer)
        /\ stream = DisorderPlan(config.disorder, buffer)
        /\ Flatten(Reverse(stream)) = buffer
        /\ \A k \in 1..Len(stream) : stream[k] # <<>>

\* Two rules resolving to two different inner offsets: three segments.
C2_Witness ==
    /\ ReturnedOk
    /\ config.split = <<>>
    /\ Len(config.disorder) = 2
    /\ Len(stream) = 3
    /\ stream[1] # stream[3]

(***************************************************************************)
(* C3: fake - the writes depend on the first fake rule only: its decoy     *)
(* bytes and then the whole buffer when it has decoy bytes no longer than  *)
(* its resolved offset, and the whole buffer alone in every other case.    *)
(***************************************************************************)
C3_FakeFirstRule ==
    (ReturnedOk /\ config.split = <<>> /\ config.disorder = <<>> /\ config.fake # <<>>) =>
        LET f == config.fake[1]
            pos == Resolved(f.split, buffer)
        IN  /\ (f.data.some /\ Len(f.data.val) <= pos) => stream = <<f.data.val, buffer>>
            /\ ~(f.data.some /\ Len(f.data.val) <= pos) => stream = <<buffer>>
            /\ total_sent = Len(buffer)

\* Two fake rules; the decoy of the first is exactly as long as its offset,
\* the second has a decoy that would fit too.
C3_Witness ==
    /\ ReturnedOk
    /\ Len(config.fake) = 2
    /\ config.fake[1].data.some
    /\ config.fake[1].data.val # <<>>
    /\ Len(config.fake[1].data.val) = Resolved(config.fake[1].split, buffer)
    /\ config.fake[2].data.some
    /\ config.fake[2].data # config.fake[1].data
    /\ stream = <<config.fake[1].data.val, buffer>>

(***************************************************************************)
(* C4: selection - a call on a non-empty buffer applies exactly one        *)
(* technique: split when the split list is non-empty, else disorder when   *)
(* the disorder list is non-empty, else fake when the fake list is         *)
(* non-empty, else one write of the whole buffer; the writes are those of  *)
(* the chosen list alone.                                                  *)
(***************************************************************************)
C4_Precedence ==
    ReturnedOk => stream = Plan(config, buffer)

\* A split rule and a disorder rule that cut the buffer at different places.
C4_Witness ==
    /\ ReturnedOk
    /\ config.split # <<>>
    /\ config.disorder # <<>>
    /\ Len(stream) = 2
    /\ stream # DisorderPlan(config.disorder, buffer)
    /\ stream # Reverse(DisorderPlan(config.disorder, buffer))

(***************************************************************************)
(* The composition of calculate_offset over the integers                   *)
(***************************************************************************)
RefOffset(cfg, buf) ==
    LET len == Len(buf)
        sni == find_sni_offset(buf)
        host == find_http_host_offset(buf)
        \* (1) a negative offset counts from the end
        o1 == IF cfg.offset < 0 THEN len + cfg.offset ELSE cfg.offset
        \* (2) sni: add the SNI offset of a ClientHello, if one is found
        o2 == IF cfg.flags.sni /\ is_tls_chello(buf) /\ sni.some THEN o1 + sni.val ELSE o1
        \* (3) host: add the Host offset, if one is found
        o3 == IF cfg.flags.host /\ host.some THEN o2 + host.val ELSE o2
        \* (4) middle: halve
        o4 == IF cfg.flags.middle THEN TruncDiv(o3, 2) ELSE o3
        \* (5) end: count from the end
        o5 == IF cfg.flags.end THEN len - o4 ELSE o4
        \* (6) clamp to [0, len]
    IN  Min(Max(o5, 0), len)

(***************************************************************************)
(* C5: calculate_offset returns, for every rule and buffer, the reference  *)
(* composition: rebase a negative offset, add the SNI offset, add the Host *)
(* offset, halve, count from the end, clamp to [0, length], in this order. *)
(***************************************************************************)
C5_OffsetComposition ==
    offset_res.called =>
        /\ ~offset_res.panic
        /\ offset_res.pos = RefOffset(split_cfg, buffer)

\* The same for the rules whose offset is not within 200 of the ends of
\* the integer type, where no addition or subtraction can overflow.
OffsetCompositionInRange ==
    (offset_res.called /\ split_cfg.offset > I64Min + 200 /\ split_cfg.offset < I64Max - 200) =>
        /\ ~offset_res.panic
        /\ offset_res.pos = RefOffset(split_cfg, buffer)

(***************************************************************************)
(* C6: one call of apply_desync.  As claimed: a call that returns an error *)
(* has performed no write.                                                 *)
(***************************************************************************)
C6_AllOrNothing ==
    (epc = "done" /\ result = "err") => (stream = <<>> /\ partial = <<>>)

(***************************************************************************)
(* C6, amended: at every moment of a call what has been written is a       *)
(* prefix of the segments the call is to write - whole segments in order,  *)
(* then at most a part of the segment whose write failed; a call that      *)
(* returns Ok has written them all.                                        *)
(***************************************************************************)
C6_PrefixWritten ==
    (buffer # <<>> /\ epc # "apply_desync") =>
        LET plan == Plan(config, buffer)
        IN  /\ IsPrefix(stream, plan)
            /\ partial # <<>> =>
                 /\ result = "err"
                 /\ Len(stream) < Len(plan)
                 /\ IsPrefix(partial, plan[Len(stream) + 1])
            /\ result = "ok" => (stream = plan /\ partial = <<>>)
            /\ (result = "err" /\ partial = <<>>) => Len(stream) <= Len(plan)

\* A write failed part-way after an earlier segment of the call was written.
C6_Witness ==
    /\ epc = "done"
    /\ result = "err"
    /\ Len(stream) >= 1
    /\ partial # <<>>

(***************************************************************************)
(* packets.rs: parse_http_connect                                          *)
(***************************************************************************)
\* "CONNECT "
ConnectPrefix == <<67, 79, 78, 78, 69, 67, 84, 32>>

StartsWith(s, pre) == IsPrefix(pre, s)
EndsWith(s, suf) == Len(s) >= Len(suf) /\ SubSeq(s, Len(s) - Len(suf) + 1, Len(s)) = suf

\* lines[0] of s.lines(): the text before the first "\n", without the "\r"
\* that precedes it; the whole text when it has no "\n".
FirstLine(s) ==
    Let(StrFind(s, <<10>>),
        LAMBDA nl :
          IF ~nl.some THEN s
          ELSE IF nl.val >= 1 /\ At(s, nl.val - 1) = 13 THEN Slice(s, 0, nl.val - 1)
          ELSE Slice(s, 0, nl.val))

\* The number of bytes of the character that starts with byte b0.
CharLen(b0) == IF b0 < 128 THEN 1 ELSE IF b0 < 224 THEN 2 ELSE IF b0 < 240 THEN 3 ELSE 4

\* The number of bytes of the white-space character (char::is_whitespace)
\* at byte i of the UTF-8 text s, or 0 when the character there is none.
WhiteLen(s, i) ==
    LET b0 == At(s, i)
        b1 == At(s, i + 1)
        b2 == At(s, i + 2)
    IN  IF b0 \in {9, 10, 11, 12, 13, 32} THEN 1
        ELSE IF b0 = 194 /\ b1 \in {133, 160} THEN 2
        ELSE IF b0 = 225 /\ b1 = 154 /\ b2 = 128 THEN 3
        ELSE IF b0 = 226 /\ b1 = 128 /\ b2 \in (128..138) \cup {168, 169, 175} THEN 3
        ELSE IF b0 = 226 /\ b1 = 129 /\ b2 = 159 THEN 3
        ELSE IF b0 = 227 /\ b1 = 128 /\ b2 = 128 THEN 3
        ELSE 0

RECURSIVE Tokens(_, _, _)
\* split_whitespace().collect() of the UTF-8 text s from byte i on, with the
\* bytes cur of the token under way.
Tokens(s, i, cur) ==
    IF i >= Len(s) THEN (IF cur = <<>> THEN <<>> ELSE <<cur>>)
    ELSE Let(WhiteLen(s, i),
             LAMBDA w :
               IF w > 0
               THEN (IF cur = <<>> THEN <<>> ELSE <<cur>>) \o Tokens(s, i + w, <<>>)
               ELSE Tokens(s, i + CharLen(At(s, i)),
                           cur \o Slice(s, i, i + CharLen(At(s, i)))))

SplitWhitespace(s) == Tokens(s, 0, <<>>)

RECURSIVE StripZeros(_)
StripZeros(d) == IF d # <<>> /\ d[1] = 48 THEN StripZeros(Tail(d)) ELSE d

RECURSIVE DecVal(_)
\* The number written by the decimal digits d.
DecVal(d) == IF d = <<>> THEN 0 ELSE DecVal(SubSeq(d, 1, Len(d) - 1)) * 10 + (d[Len(d)] - 48)

\* str::parse::<u16>: an optional "+", then one or more decimal digits whose
\* value is at most 65535.
ParseU16(t) ==
    LET digits == IF t # <<>> /\ t[1] = 43 THEN Tail(t) ELSE t
        sig == StripZeros(digits)
    IN  IF digits = <<>> \/ \E k \in 1..Len(digits) : digits[k] < 48 \/ digits[k] > 57
        THEN None
        ELSE IF Len(sig) > 5 \/ DecVal(sig) > 65535 THEN None
        ELSE Some(DecVal(sig))

\* The second token of the CONNECT line: host, ":", port.
ParseHostPort(host_port) ==
    Let(StrFind(host_port, <<58>>),
        LAMBDA colon :
          IF ~colon.some THEN NoTarget
          ELSE Let(ParseU16(Slice(host_port, colon.val + 1, Len(host_port))),
                   LAMBDA port :
                     IF ~port.some THEN NoTarget
                     ELSE SomeTarget(Slice(host_port, 0, colon.val), port.val)))

parse_http_connect(buf) ==
    IF ~IsUtf8(buf) THEN NoTarget
    ELSE IF buf = <<>> THEN NoTarget
    ELSE Let(FirstLine(buf),
             LAMBDA connect_line :
               IF ~StartsWith(connect_line, ConnectPrefix) THEN NoTarget
               ELSE Let(SplitWhitespace(connect_line),
                        LAMBDA parts :
                          IF Len(parts) < 2 THEN NoTarget
                          ELSE ParseHostPort(parts[2])))

(***************************************************************************)
(* proxy.rs: constants                                                     *)
(***************************************************************************)
SOCKS5_VERSION == 5
SOCKS5_AUTH_NONE == 0
SOCKS5_CMD_CONNECT == 1
SOCKS5_ATYP_IPV4 == 1
SOCKS5_ATYP_DOMAIN == 3
SOCKS5_ATYP_IPV6 == 4
SOCKS5_REP_SUCCESS == 0
\* b'C'
HTTP_FIRST == 67
\* The size beyond which handle_http_connect gives up.
HTTP_MAX == 8192

CRLF == <<13, 10>>
CRLFCRLF == <<13, 10, 13, 10>>

\* let auth_response = [SOCKS5_VERSION, SOCKS5_AUTH_NONE];
AuthResponse == <<SOCKS5_VERSION, SOCKS5_AUTH_NONE>>
\* The SOCKS5 success response.
Socks5Response ==
    <<SOCKS5_VERSION, SOCKS5_REP_SUCCESS, 0, SOCKS5_ATYP_IPV4, 0, 0, 0, 0, 0, 0>>
\* b"HTTP/1.1 200 Connection Established\r\n\r\n"
HttpResponse == <<72, 84, 84, 80, 47, 49, 46, 49, 32, 50, 48, 48, 32, 67, 111, 110, 110, 101, 99, 116, 105, 111, 110, 32, 69, 115, 116, 97, 98, 108, 105, 115, 104, 101, 100, 13, 10, 13, 10>>

(***************************************************************************)
(* proxy.rs: reads from and writes to the client                           *)
(***************************************************************************)
\* client.read_exact of n bytes succeeds: the client sends that many more.
CanRead(n) == Len(client_in) >= n

\* The read of n bytes: they move from client_in to client_read.
ReadExact(n) ==
    /\ client_in' = SubSeq(client_in, n + 1, Len(client_in))
    /\ client_read' = client_read \o SubSeq(client_in, 1, n)

\* The handler returns the error msg.
Fail(msg) ==
    /\ hpc' = "failed"
    /\ herr' = msg

\* read_exact meets the end of the client's stream: what was left is
\* consumed and the handler returns the I/O error.
ReadEof ==
    /\ client_in' = <<>>
    /\ client_read' = client_read \o client_in
    /\ Fail("io: unexpected eof")

\* `client.write_all(seg).await?; client.flush().await?` with outcome o.
ClientWrite(seg, o) ==
    /\ client_out' = IF o.kind = "write_err" THEN client_out ELSE Append(client_out, seg)
    /\ client_partial' = IF o.kind = "write_err" THEN SubSeq(seg, 1, o.sent) ELSE <<>>

(***************************************************************************)
(* proxy.rs: handle_client, protocol sniff                                 *)
(***************************************************************************)
\* Mutant of SniffProtocol: the version byte is not checked.
SniffProtocolLax(byte) == IF byte = HTTP_FIRST THEN "http" ELSE "socks5"

\* The path the first byte selects.
SniffProtocol(byte) ==
    IF byte = HTTP_FIRST THEN "http"
    ELSE IF byte # SOCKS5_VERSION THEN "invalid"
    ELSE "socks5"

Sniff ==
    /\ hpc = "sniff"
    /\ IF ~CanRead(1)
       THEN /\ ReadEof
            /\ UNCHANGED <<proto, req_buffer>>
       ELSE /\ ReadExact(1)
            /\ LET first_byte == client_in[1]
                   path == SniffProtocol(first_byte)
               IN  IF path = "http"
                   THEN /\ proto' = "http"
                        /\ req_buffer' = <<first_byte>>
                        /\ hpc' = "http_line"
                        /\ UNCHANGED herr
                   ELSE IF path = "invalid"
                   THEN /\ Fail("Invalid SOCKS version")
                        /\ UNCHANGED <<proto, req_buffer>>
                   ELSE /\ proto' = "socks5"
                        /\ hpc' = "nmethods"
                        /\ UNCHANGED <<herr, req_buffer>>
    /\ UNCHANGED <<client_out, client_partial, n_methods, methods, request, addr,
                   target_addr, dials, last_four, c2t, t2c, target_open, engine_vars, offset_vars,
                   forward_vars, server_vars, packets_vars>>

(***************************************************************************)
(* proxy.rs: handle_client, SOCKS5 method negotiation                      *)
(***************************************************************************)
ReadNMethods ==
    /\ hpc = "nmethods"
    /\ IF ~CanRead(1)
       THEN /\ ReadEof
            /\ UNCHANGED n_methods
       ELSE /\ ReadExact(1)
            /\ n_methods' = client_in[1]
            /\ hpc' = "methods"
            /\ UNCHANGED herr
    /\ UNCHANGED <<proto, client_out, client_partial, methods, request, addr,
                   target_addr, dials, req_buffer, last_four, c2t, t2c,
                   target_open, engine_vars, offset_vars,
                   forward_vars, server_vars, packets_vars>>

\* Mutant of MethodsAccepted: only the first method is looked at.
MethodsAcceptedFirst(ms) == ms # <<>> /\ ms[1] = SOCKS5_AUTH_NONE

\* methods.contains(&SOCKS5_AUTH_NONE)
MethodsAccepted(ms) == \E k \in 1..Len(ms) : ms[k] = SOCKS5_AUTH_NONE

ReadMethods ==
    /\ hpc = "methods"
    /\ IF ~CanRead(n_methods)
       THEN /\ ReadEof
            /\ UNCHANGED methods
       ELSE /\ ReadExact(n_methods)
            /\ methods' = SubSeq(client_in, 1, n_methods)
            /\ IF ~MethodsAccepted(methods')
               THEN Fail("Client does not support no authentication")
               ELSE /\ hpc' = "auth_reply"
                    /\ UNCHANGED herr
    /\ UNCHANGED <<proto, client_out, client_partial, n_methods, request, addr,
                   target_addr, dials, req_buffer, last_four, c2t, t2c,
                   target_open, engine_vars, offset_vars,
                   forward_vars, server_vars, packets_vars>>

SendAuthReply ==
    /\ hpc = "auth_reply"
    /\ \E o \in WriteOutcomes(AuthResponse) :
         /\ ClientWrite(AuthResponse, o)
         /\ IF Propagates(o)
            THEN Fail("io: write")
            ELSE /\ hpc' = "request"
                 /\ UNCHANGED herr
    /\ UNCHANGED <<proto, client_in, client_read, n_methods, methods, request, addr,
                   target_addr, dials, req_buffer, last_four, c2t, t2c,
                   target_open, engine_vars, offset_vars,
                   forward_vars, server_vars, packets_vars>>

(***************************************************************************)
(* proxy.rs: handle_client, SOCKS5 request                                 *)
(***************************************************************************)
\* Mutant of RequestRejected: `&&` in place of `||`.
RequestRejectedBoth(ver, cmd) == ver # SOCKS5_VERSION /\ cmd # SOCKS5_CMD_CONNECT

\* if ver != SOCKS5_VERSION || cmd != SOCKS5_CMD_CONNECT { bail }
RequestRejected(ver, cmd) == ver # SOCKS5_VERSION \/ cmd # SOCKS5_CMD_CONNECT

\* Mutant of AtypSupported: `match atyp` has an arm for every value.
AtypSupportedAll(atyp) == TRUE

\* The arms of `match atyp` that read an address.
AtypSupported(atyp) == atyp \in {SOCKS5_ATYP_IPV4, SOCKS5_ATYP_DOMAIN, SOCKS5_ATYP_IPV6}

\* Mutant of AddrReadLen: the address buffers have room for the port too.
AddrReadLenWithPort(atyp) ==
    IF atyp = SOCKS5_ATYP_IPV4 THEN 6
    ELSE IF atyp = SOCKS5_ATYP_IPV6 THEN 18
    ELSE 1

\* The number of bytes the first read of the arm of atyp asks for: the
\* address, or the length byte of a domain.
AddrReadLen(atyp) ==
    IF atyp = SOCKS5_ATYP_IPV4 THEN 4
    ELSE IF atyp = SOCKS5_ATYP_IPV6 THEN 16
    ELSE 1

\* The 4-byte request header and its checks; an unsupported address type
\* ends the handler without a further read.
ReadRequest ==
    /\ hpc = "request"
    /\ IF ~CanRead(4)
       THEN /\ ReadEof
            /\ UNCHANGED request
       ELSE /\ ReadExact(4)
            /\ request' = SubSeq(client_in, 1, 4)
            /\ LET ver == request'[1]
                   cmd == request'[2]
                   atyp == request'[4]
               IN  IF RequestRejected(ver, cmd)
                   THEN Fail("Invalid SOCKS5 request")
                   ELSE IF ~AtypSupported(atyp)
                   THEN Fail("Unsupported address type")
                   ELSE /\ hpc' = "address"
                        /\ UNCHANGED herr
    /\ UNCHANGED <<proto, client_out, client_partial, n_methods, methods, addr,
                   target_addr, dials, req_buffer, last_four, c2t, t2c,
                   target_open, engine_vars, offset_vars,
                   forward_vars, server_vars, packets_vars>>

\* The first read of the arm: the IPv4 or IPv6 address, or the domain length.
ReadAddress ==
    /\ hpc = "address"
    /\ LET n == AddrReadLen(request[4])
       IN  IF ~CanRead(n)
           THEN /\ ReadEof
                /\ UNCHANGED addr
           ELSE /\ ReadExact(n)
                /\ addr' = SubSeq(client_in, 1, n)
                /\ hpc' = IF request[4] = SOCKS5_ATYP_DOMAIN THEN "domain" ELSE "port"
                /\ UNCHANGED herr
    /\ UNCHANGED <<proto, client_out, client_partial, n_methods, methods, request,
                   target_addr, dials, req_buffer, last_four, c2t, t2c,
                   target_open, engine_vars, offset_vars,
                   forward_vars, server_vars, packets_vars>>

\* let mut domain = vec![0u8; domain_len]; client.read_exact(&mut domain)
ReadDomain ==
    /\ hpc = "domain"
    /\ LET domain_len == addr[1]
       IN  IF ~CanRead(domain_len)
           THEN /\ ReadEof
                /\ UNCHANGED addr
           ELSE /\ ReadExact(domain_len)
                /\ addr' = SubSeq(client_in, 1, domain_len)
                /\ hpc' = "port"
                /\ UNCHANGED herr
    /\ UNCHANGED <<proto, client_out, client_partial, n_methods, methods, request,
                   target_addr, dials, req_buffer, last_four, c2t, t2c,
                   target_open, engine_vars, offset_vars,
                   forward_vars, server_vars, packets_vars>>

\* The 2-byte port; then the address to dial, or for a domain the check
\* that it is UTF-8 and the name to look up.
ReadPort ==
    /\ hpc = "port"
    /\ IF ~CanRead(2)
       THEN /\ ReadEof
            /\ UNCHANGED target_addr
       ELSE /\ ReadExact(2)
            /\ LET port == U16(client_in[1], client_in[2])
               IN  IF request[4] = SOCKS5_ATYP_DOMAIN
                   THEN IF ~IsUtf8(addr)
                        THEN /\ Fail("Invalid domain name")
                             /\ UNCHANGED target_addr
                        ELSE /\ target_addr' = [host |-> addr, port |-> port, resolved |-> FALSE]
                             /\ hpc' = "resolve"
                             /\ UNCHANGED herr
                   ELSE /\ target_addr' = [host |-> addr, port |-> port, resolved |-> TRUE]
                        /\ hpc' = "dial"
                        /\ UNCHANGED herr
    /\ UNCHANGED <<proto, client_out, client_partial, n_methods, methods, request, addr,
                   dials, req_buffer, last_four, c2t, t2c, target_open, engine_vars, offset_vars,
                   forward_vars, server_vars, packets_vars>>

(***************************************************************************)
(* proxy.rs: handle_http_connect, request line and headers                 *)
(***************************************************************************)
\* One turn of the request-line loop.
HttpReadLine ==
    /\ hpc = "http_line"
    /\ IF ~CanRead(1)
       THEN /\ ReadEof
            /\ UNCHANGED <<req_buffer, last_four>>
       ELSE /\ ReadExact(1)
            /\ req_buffer' = Append(req_buffer, client_in[1])
            /\ IF Len(req_buffer') >= 2 /\ EndsWith(req_buffer', CRLF)
               THEN /\ hpc' = "http_headers"
                    /\ last_four' = <<0, 0, 0, 0>>
                    /\ UNCHANGED herr
               ELSE IF Len(req_buffer') > HTTP_MAX
               THEN /\ Fail("HTTP CONNECT request too long")
                    /\ UNCHANGED last_four
               ELSE UNCHANGED <<hpc, herr, last_four>>
    /\ UNCHANGED <<proto, client_out, client_partial, n_methods, methods, request, addr,
                   target_addr, dials, target_open, c2t, t2c, engine_vars, offset_vars,
                   forward_vars, server_vars, packets_vars>>

\* last_four.push(b); if last_four.len() > 4 { last_four.remove(0); }
PushLastFour(lf, b) == IF Len(lf) + 1 > 4 THEN Tail(Append(lf, b)) ELSE Append(lf, b)

\* One turn of the header loop; on the end of the headers, the parse of
\* the target.
HttpReadHeader ==
    /\ hpc = "http_headers"
    /\ IF ~CanRead(1)
       THEN /\ ReadEof
            /\ UNCHANGED <<req_buffer, last_four, target_addr>>
       ELSE /\ ReadExact(1)
            /\ req_buffer' = Append(req_buffer, client_in[1])
            /\ last_four' = PushLastFour(last_four, client_in[1])
            /\ IF last_four' = CRLFCRLF
               THEN \E t \in {parse_http_connect(req_buffer')} :
                      IF ~t.some
                      THEN /\ Fail("Failed to parse HTTP CONNECT target")
                           /\ UNCHANGED target_addr
                      ELSE /\ target_addr' = [host |-> t.host, port |-> t.port,
                                              resolved |-> FALSE]
                           /\ hpc' = "resolve"
                           /\ UNCHANGED herr
               ELSE IF Len(req_buffer') > HTTP_MAX
               THEN /\ Fail("HTTP CONNECT headers too long")
                    /\ UNCHANGED target_addr
               ELSE UNCHANGED <<hpc, herr, target_addr>>
    /\ UNCHANGED <<proto, client_out, client_partial, n_methods, methods, request, addr,
                   dials, target_open, c2t, t2c, engine_vars, offset_vars,
                   forward_vars, server_vars, packets_vars>>

(***************************************************************************)
(* proxy.rs: name resolution, dial, success reply (both paths)             *)
(***************************************************************************)
\* tokio::net::lookup_host fails, yields no address, or yields one.
LookupOutcomes == {"err", "empty", "ok"}

Resolve ==
    /\ hpc = "resolve"
    /\ \E o \in LookupOutcomes :
         IF o = "err"
         THEN /\ Fail(IF proto = "http" THEN "Failed to resolve HTTP CONNECT target"
                      ELSE "Failed to resolve domain")
              /\ UNCHANGED target_addr
         ELSE IF o = "empty"
         THEN /\ Fail(IF proto = "http" THEN "No addresses found for HTTP CONNECT target"
                      ELSE "No addresses found for domain")
              /\ UNCHANGED target_addr
         ELSE /\ target_addr' = [target_addr EXCEPT !.resolved = TRUE]
              /\ hpc' = "dial"
              /\ UNCHANGED herr
    /\ UNCHANGED <<proto, client_in, client_read, client_out, client_partial, n_methods,
                   methods, request, addr, dials, req_buffer, last_four, c2t, t2c,
                   target_open, engine_vars, offset_vars,
                   forward_vars, server_vars, packets_vars>>

\* TcpStream::connect succeeds or fails.
DialOutcomes == {"ok", "err"}

\* Mutant of DialProceeds: the handler goes on after a failed connect.
DialProceedsAlways(o) == TRUE

\* `.context("Failed to connect to target")?`: only Ok goes on.
DialProceeds(o) == o = "ok"

Dial ==
    /\ hpc = "dial"
    /\ dials' = dials + 1
    /\ \E o \in DialOutcomes :
         IF DialProceeds(o)
         THEN /\ target_open' = (o = "ok")
              /\ hpc' = "reply"
              /\ UNCHANGED herr
         ELSE /\ Fail(IF proto = "http" THEN "Failed to connect to HTTP CONNECT target"
                      ELSE "Failed to connect to target")
              /\ UNCHANGED target_open
    /\ UNCHANGED <<proto, client_in, client_read, client_out, client_partial, n_methods,
                   methods, request, addr, target_addr, req_buffer, last_four, c2t, t2c,
                   engine_vars, offset_vars,
                   forward_vars, server_vars, packets_vars>>

\* The success reply of the path.
SuccessReply(p) == IF p = "http" THEN HttpResponse ELSE Socks5Response

\* The reply is written and flushed; then both forwarding tasks are spawned.
SendReply ==
    /\ hpc = "reply"
    /\ \E o \in WriteOutcomes(SuccessReply(proto)) :
         /\ ClientWrite(SuccessReply(proto), o)
         /\ IF Propagates(o)
            THEN /\ Fail("io: write")
                 /\ UNCHANGED <<c2t, t2c>>
            ELSE /\ hpc' = "forwarding"
                 /\ c2t' = "running"
                 /\ t2c' = "running"
                 /\ UNCHANGED herr
    /\ UNCHANGED <<proto, client_in, client_read, n_methods, methods, request, addr,
                   target_addr, dials, req_buffer, last_four, target_open, engine_vars, offset_vars,
                   forward_vars, server_vars, packets_vars>>

(***************************************************************************)
(* proxy.rs: the two forwarding tasks and their join                       *)
(***************************************************************************)
\* forward_with_desync returns Ok(()) or an error.
ClientToTargetEnds ==
    /\ hpc = "forwarding"
    /\ c2t = "running"
    /\ c2t' \in {"ok", "err"}
    /\ UNCHANGED <<hpc, proto, client_in, client_read, client_out, client_partial,
                   n_methods, methods, request, addr, target_addr, dials, target_open,
                   req_buffer, last_four, herr, t2c, engine_vars, offset_vars,
                   forward_vars, server_vars, packets_vars>>

\* forward_normal returns Ok(()) or an error.
TargetToClientEnds ==
    /\ hpc = "forwarding"
    /\ t2c = "running"
    /\ t2c' \in {"ok", "err"}
    /\ UNCHANGED <<hpc, proto, client_in, client_read, client_out, client_partial,
                   n_methods, methods, request, addr, target_addr, dials, target_open,
                   req_buffer, last_four, herr, c2t, engine_vars, offset_vars,
                   forward_vars, server_vars, packets_vars>>

\* The task has returned Ok(()) or an error, or has panicked.
Ended(task) == task \in {"ok", "err", "panic"}

\* Mutant of BothDone: tokio::select! in place of tokio::join!.
EitherDone(a, b) == Ended(a) \/ Ended(b)

\* tokio::join!(client_to_target, target_to_client) has both results.
BothDone(a, b) == Ended(a) /\ Ended(b)

\* tokio::join! of both tasks; the handler logs their results and returns Ok.
Join ==
    /\ hpc = "forwarding"
    /\ BothDone(c2t, t2c)
    /\ hpc' = "closed"
    /\ UNCHANGED <<proto, client_in, client_read, client_out, client_partial,
                   n_methods, methods, request, addr, target_addr, dials, target_open,
                   req_buffer, last_four, herr, c2t, t2c, engine_vars, offset_vars,
                   forward_vars, server_vars, packets_vars>>

(***************************************************************************)
(* What a client sends on one connection                                   *)
(***************************************************************************)
Prefixes(s) == {SubSeq(s, 1, k) : k \in 0..Len(s)}

\* Method lists of every length up to MaxMethods over no-auth (0), GSSAPI (1)
\* and username/password (2).
MethodLists == UNION {[1..n -> {0, 1, 2}] : n \in 0..MaxMethods}

\* VER NMETHODS METHODS
Greeting(ms) == <<SOCKS5_VERSION, Len(ms)>> \o ms

\* 10.0.0.1:443, "a":80, "":80, a domain that is not UTF-8, [::1]:443
AddrV4 == <<10, 0, 0, 1, 1, 187>>
AddrDomain == <<1, 97, 0, 80>>
AddrDomainEmpty == <<0, 0, 80>>
AddrDomainBad == <<1, 255, 0, 80>>
AddrV6 == <<0, 0, 0, 0, 0, 0, 0, 0, 0, 0, 0, 0, 0, 0, 0, 1, 1, 187>>

\* The address bytes a client sends for an address type; for a type the
\* protocol does not define, bytes all the same.
AddrsOf(atyp) ==
    IF atyp = SOCKS5_ATYP_IPV4 THEN {AddrV4}
    ELSE IF atyp = SOCKS5_ATYP_DOMAIN THEN {AddrDomain, AddrDomainEmpty, AddrDomainBad}
    ELSE IF atyp = SOCKS5_ATYP_IPV6 THEN {AddrV6}
    ELSE {AddrV4}

\* VER CMD RSV ATYP ADDR PORT, with versions 4 and 5, commands CONNECT (1)
\* and BIND (2), and address types 0..5.
Requests ==
    UNION {{<<ver, cmd, 0, atyp>> \o a : a \in AddrsOf(atyp)} :
             ver \in {4, 5}, cmd \in {1, 2}, atyp \in 0..5}

\* The first bytes of the tunnelled traffic, sent right after the handshake.
Tails == {<<>>, <<22, 3>>}

SocksStreams ==
    {Greeting(ms) \o <<5, 1, 0>> \o AddrV4 : ms \in MethodLists}
    \cup {Greeting(<<0>>) \o r \o t : r \in Requests, t \in Tails}
    \cup {Greeting(<<2, 0>>) \o r : r \in Requests}
    \cup Prefixes(Greeting(<<1, 0, 2>>) \o <<5, 1, 0>> \o AddrDomain)
    \cup Prefixes(Greeting(<<0>>) \o <<5, 1, 0>> \o AddrV6)
    \cup {<<v>> \o <<1, 0, 5, 1, 0>> \o AddrV4 : v \in {0, 4, 6, 71, 255}}
    \cup {<<SOCKS5_VERSION, 0>>}

\* "CONNECT a:1 HTTP/1.1\r\nHost: a\r\n\r\n" and the first bytes of the tunnel
HttpGood == <<67, 79, 78, 78, 69, 67, 84, 32, 97, 58, 49, 32, 72, 84, 84, 80, 47, 49, 46, 49, 13, 10, 72, 111, 115, 116, 58, 32, 97, 13, 10, 13, 10>> \o <<22, 3>>
\* "CONNECT b:65535 H\r\nA: b\r\nC: d\r\n\r\n"
HttpTwoHeaders == <<67, 79, 78, 78, 69, 67, 84, 32, 98, 58, 54, 53, 53, 51, 53, 32, 72, 13, 10, 65, 58, 32, 98, 13, 10, 67, 58, 32, 100, 13, 10, 13, 10>>
\* "CONNECT a:1\r\n\r\n": no header line; then "\r\n\r\n" again
HttpNoHeaders == <<67, 79, 78, 78, 69, 67, 84, 32, 97, 58, 49, 13, 10, 13, 10>> \o <<13, 10, 13, 10>>
\* "CONNECT a H\r\nX: y\r\n\r\n": no port
HttpNoPort == <<67, 79, 78, 78, 69, 67, 84, 32, 97, 32, 72, 13, 10, 88, 58, 32, 121, 13, 10, 13, 10>>
\* "CONNECT a:b H\r\nX: y\r\n\r\n": the port is no number
HttpBadPort == <<67, 79, 78, 78, 69, 67, 84, 32, 97, 58, 98, 32, 72, 13, 10, 88, 58, 32, 121, 13, 10, 13, 10>>
\* "CONNECT a:65536 H\r\nX: y\r\n\r\n": the port is beyond u16
HttpBigPort == <<67, 79, 78, 78, 69, 67, 84, 32, 97, 58, 54, 53, 53, 51, 54, 32, 72, 13, 10, 88, 58, 32, 121, 13, 10, 13, 10>>
\* "CONNECT \r\nX: y\r\n\r\n": no target
HttpNoTarget == <<67, 79, 78, 78, 69, 67, 84, 32, 13, 10, 88, 58, 32, 121, 13, 10, 13, 10>>
\* "COPY a:1 H\r\nX: y\r\n\r\n": another method that starts with 'C'
HttpOtherMethod == <<67, 79, 80, 89, 32, 97, 58, 49, 32, 72, 13, 10, 88, 58, 32, 121, 13, 10, 13, 10>>
\* "CONNECT a:1 H\r\nX: <0xFF>\r\n\r\n": a header that is not UTF-8
HttpNotUtf8 == <<67, 79, 78, 78, 69, 67, 84, 32, 97, 58, 49, 32, 72, 13, 10, 88, 58, 32, 255, 13, 10, 13, 10>>

\* n bytes 'x'
Pad(n) == [i \in 1..n |-> 120]

\* "CONNECT a:1 H\r\nX: "
HttpHead == <<67, 79, 78, 78, 69, 67, 84, 32, 97, 58, 49, 32, 72, 13, 10, 88, 58, 32>>

\* A request of n bytes in all: the head, a header value that fills it up,
\* and CR LF CR LF.
HttpOfSize(n) == HttpHead \o Pad(n - Len(HttpHead) - 4) \o CRLFCRLF

\* A request line of n bytes in all, CRLF included.
HttpLineOfSize(n) == <<HTTP_FIRST>> \o Pad(n - 3) \o CRLF

\* Requests at and beyond the size cap: a request line that does not end, a
\* request line whose CRLF ends one byte beyond the cap, and requests whose
\* CR LF CR LF ends at the cap, one byte beyond it and two bytes beyond it.
HttpLongStreams ==
    {<<HTTP_FIRST>> \o Pad(HTTP_MAX + 1),
     HttpLineOfSize(HTTP_MAX + 1) \o CRLFCRLF,
     HttpOfSize(HTTP_MAX),
     HttpOfSize(HTTP_MAX + 1),
     HttpOfSize(HTTP_MAX + 2)}

HttpStreams ==
    Prefixes(HttpGood) \cup Prefixes(HttpTwoHeaders) \cup Prefixes(HttpNoHeaders)
    \cup {HttpNoPort, HttpBadPort, HttpBigPort, HttpNoTarget, HttpOtherMethod,
          HttpNotUtf8}
    \cup HttpLongStreams

ClientStreams == SocksStreams \cup HttpStreams

(***************************************************************************)
(* One connection handled by handle_client                                 *)
(***************************************************************************)
ProxyInit ==
    /\ ServerIdle
    /\ PacketsIdle
    /\ overflow_checks = FALSE
    /\ config = NoConfig
    /\ buffer = <<>>
    /\ epc = "idle"
    /\ EngineStart
    /\ OffsetIdle
    /\ hpc = "sniff"
    /\ client_in \in ClientStreams
    /\ ProxyStart

ProxyNext ==
    \/ Sniff
    \/ ReadNMethods
    \/ ReadMethods
    \/ SendAuthReply
    \/ ReadRequest
    \/ ReadAddress
    \/ ReadDomain
    \/ ReadPort
    \/ HttpReadLine
    \/ HttpReadHeader
    \/ Resolve
    \/ Dial
    \/ SendReply
    \/ ClientToTargetEnds
    \/ TargetToClientEnds
    \/ Join

ProxySpec == ProxyInit /\ [][ProxyNext]_vars

(***************************************************************************)
(* handle_http_connect taken up in its read loops                          *)
(***************************************************************************)
\* last_four after the header loop has pushed the bytes h.
LastFourAfter(h) == SubSeq(<<0, 0, 0, 0>> \o h, Len(h) + 1, Len(h) + 4)

\* After the bytes rd the handler is in the request-line loop or in the
\* header loop: rd starts with 'C'; no turn of the request-line loop before
\* its CRLF left more than HTTP_MAX bytes; the bytes after the request line
\* hold no CR LF CR LF and no turn of the header loop left more than
\* HTTP_MAX bytes.
HttpInLoops(rd) ==
    /\ rd # <<>>
    /\ rd[1] = HTTP_FIRST
    /\ \E eol \in {StrFind(rd, CRLF)} :
         IF ~eol.some THEN Len(rd) <= HTTP_MAX
         ELSE /\ eol.val + 1 <= HTTP_MAX
              /\ \E h \in {Slice(rd, eol.val + 2, Len(rd))} :
                   /\ ~StrFind(h, CRLFCRLF).some
                   /\ h # <<>> => Len(rd) <= HTTP_MAX

\* The state of the handler in the loops after it has read rd, with the
\* bytes rest of the client still unread.
HttpLoopState(rd, rest) ==
    /\ proto = "http"
    /\ client_in = rest
    /\ client_read = rd
    /\ req_buffer = rd
    /\ \E eol \in {StrFind(rd, CRLF)} :
         IF ~eol.some
         THEN hpc = "http_line" /\ last_four = <<>>
         ELSE /\ hpc = "http_headers"
              /\ last_four = LastFourAfter(Slice(rd, eol.val + 2, Len(rd)))
    /\ client_out = <<>>
    /\ client_partial = <<>>
    /\ n_methods = 0
    /\ methods = <<>>
    /\ request = <<>>
    /\ addr = <<>>
    /\ target_addr = NoAddr
    /\ dials = 0
    /\ target_open = FALSE
    /\ herr = "none"
    /\ c2t = "idle"
    /\ t2c = "idle"
    /\ ForwardIdle

\* In every run of the handler from its sniff on, the loops are in the
\* state HttpLoopState gives for the bytes read.
HttpLoopSummary ==
    hpc \in {"http_line", "http_headers"} =>
        HttpInLoops(client_read) /\ HttpLoopState(client_read, client_in)

\* The requests taken up: those at and beyond the size cap, followed or not
\* by the first bytes of the tunnel, and three short ones.
CapStreams ==
    {s \o t : s \in HttpLongStreams, t \in Tails}
    \cup {HttpGood, HttpTwoHeaders, HttpNoHeaders}

\* The handler in its loops, at most CapWindow bytes before the end of the
\* client's stream.
CapInit ==
    /\ ServerIdle
    /\ PacketsIdle
    /\ overflow_checks = FALSE
    /\ config = NoConfig
    /\ buffer = <<>>
    /\ epc = "idle"
    /\ EngineStart
    /\ OffsetIdle
    /\ \E s \in CapStreams :
         \E k \in Max(1, Len(s) - CapWindow)..Len(s) :
           /\ HttpInLoops(SubSeq(s, 1, k))
           /\ HttpLoopState(SubSeq(s, 1, k), SubSeq(s, k + 1, Len(s)))

CapNext ==
    \/ HttpReadLine
    \/ HttpReadHeader
    \/ Resolve
    \/ Dial
    \/ SendReply
    \/ ClientToTargetEnds
    \/ TargetToClientEnds
    \/ Join

CapSpec == CapInit /\ [][CapNext]_vars

(***************************************************************************)
(* Claims about the handshake                                              *)
(***************************************************************************)
\* The bytes read so far, from 0-based position a up to b.
ReadSlice(a, b) == Slice(client_read, a, b)

\* Nothing was written to the client, in whole or in part.
NothingWritten == client_out = <<>> /\ client_partial = <<>>

C7_State ==
    /\ hpc = "sniff" =>
         client_read = <<>> /\ proto = "none" /\ NothingWritten /\ dials = 0
    /\ (hpc # "sniff" /\ client_read = <<>>) =>
         hpc = "failed" /\ proto = "none" /\ NothingWritten /\ dials = 0
    /\ client_read # <<>> =>
         /\ proto = "socks5" <=> client_read[1] = 5
         /\ proto = "http" <=> client_read[1] = 67
         /\ hpc = "nmethods" => Len(client_read) = 1
         /\ proto = "http" =>
              /\ req_buffer # <<>> /\ req_buffer[1] = 67
              /\ req_buffer = client_read
         /\ client_read[1] \notin {5, 67} =>
              /\ hpc = "failed"
              /\ herr = "Invalid SOCKS version"
              /\ proto = "none"
              /\ Len(client_read) = 1
              /\ NothingWritten
              /\ dials = 0
              /\ ~target_open

\* The step that leaves the sniff reads one byte, or none at the end of the
\* stream.
C7_Step ==
    (hpc = "sniff" /\ hpc' # "sniff") =>
        /\ Len(client_read') <= 1
        /\ req_buffer' = IF proto' = "http" THEN <<67>> ELSE <<>>

\* C7: the handler reads exactly one byte first; 0x05 enters the SOCKS5
\* path, 0x43 enters the HTTP CONNECT path with that byte as the first byte
\* of the accumulated request, and every other value ends the handler with
\* an error, nothing written to the client and no target dialed.
C7_Sniff == []C7_State /\ [][C7_Step]_vars

\* A byte that is neither 0x05 nor 'C' was read and the handler has failed,
\* with bytes of the client still unread.
C7_Witness ==
    /\ hpc = "failed"
    /\ herr = "Invalid SOCKS version"
    /\ client_read = <<4>>
    /\ client_in # <<>>

\* The method list contains 0x00 at some position.
HasNoAuth == \E k \in 1..Len(methods) : methods[k] = 0

\* NMETHODS and that many method bytes have been read.
MethodsRead ==
    /\ proto = "socks5"
    /\ hpc \notin {"nmethods", "methods"}
    /\ Len(client_read) >= 2 + n_methods

\* C8: once NMETHODS = N and exactly N method bytes are read, the handler
\* writes the reply (0x05, 0x00) and goes on if and only if the list
\* contains 0x00; otherwise (N = 0 included) it fails and no byte is
\* written to the client.
C8_MethodNegotiation ==
    /\ (proto = "socks5" /\ hpc \in {"nmethods", "methods"}) => NothingWritten
    /\ hpc = "auth_reply" =>
         /\ MethodsRead
         /\ Len(client_read) = 2 + n_methods
         /\ NothingWritten
    /\ MethodsRead =>
         /\ n_methods = client_read[2]
         /\ methods = ReadSlice(2, 2 + n_methods)
         /\ HasNoAuth =>
              /\ herr # "Client does not support no authentication"
              /\ \/ hpc = "auth_reply"
                 \/ client_out # <<>> /\ client_out[1] = <<5, 0>>
                 \/ /\ hpc = "failed"
                    /\ herr = "io: write"
                    /\ client_out = <<>>
                    /\ IsPrefix(client_partial, <<5, 0>>)
              /\ (hpc \notin {"auth_reply", "failed"}) =>
                    client_out # <<>> /\ client_out[1] = <<5, 0>>
         /\ ~HasNoAuth =>
              /\ hpc = "failed"
              /\ herr = "Client does not support no authentication"
              /\ Len(client_read) = 2 + n_methods
              /\ NothingWritten
              /\ dials = 0
    /\ (proto = "socks5" /\ client_out # <<>>) => MethodsRead /\ HasNoAuth

\* The list (0x01, 0x00, 0x02) was accepted: the reply is written and the
\* handler waits for the request.
C8_Witness ==
    /\ hpc = "request"
    /\ methods = <<1, 0, 2>>
    /\ client_out = <<(<<5, 0>>)>>

\* The fixed success replies, byte by byte.
Socks5ReplyBytes == <<5, 0, 0, 1, 0, 0, 0, 0, 0, 0>>
\* "HTTP/1.1 200 Connection Established\r\n\r\n"
Http200Bytes == <<72, 84, 84, 80, 47, 49, 46, 49, 32, 50, 48, 48, 32, 67, 111, 110, 110, 101, 99, 116, 105, 111, 110, 32, 69, 115, 116, 97, 98, 108, 105, 115, 104, 101, 100, 13, 10, 13, 10>>
ReplyBytes == IF proto = "http" THEN Http200Bytes ELSE Socks5ReplyBytes

\* The positions of client_out that hold a success reply.
ReplyWrites ==
    {k \in 1..Len(client_out) : client_out[k] \in {Socks5ReplyBytes, Http200Bytes}}

\* The write of the success reply failed after some of its bytes.
ReplyPartlyWritten ==
    /\ hpc = "failed"
    /\ herr = "io: write"
    /\ dials > 0
    /\ client_partial # <<>>

ForwardingStarted ==
    c2t # "idle" \/ t2c # "idle" \/ hpc \in {"forwarding", "closed"}

ResolveOrDialFailed ==
    herr \in {"Failed to resolve domain", "No addresses found for domain",
              "Failed to connect to target",
              "Failed to resolve HTTP CONNECT target",
              "No addresses found for HTTP CONNECT target",
              "Failed to connect to HTTP CONNECT target"}

\* The order of the handler's positions on either path.
Rank(pc) ==
    CASE pc = "sniff" -> 0
      [] pc \in {"nmethods", "http_line"} -> 1
      [] pc \in {"methods", "http_headers"} -> 2
      [] pc = "auth_reply" -> 3
      [] pc = "request" -> 4
      [] pc = "address" -> 5
      [] pc = "domain" -> 6
      [] pc = "port" -> 7
      [] pc = "resolve" -> 8
      [] pc = "dial" -> 9
      [] pc = "reply" -> 10
      [] pc = "forwarding" -> 11
      [] pc = "closed" -> 12
      [] pc = "failed" -> 13

C9_State ==
    /\ dials <= 1
    /\ (ReplyWrites # {} \/ ReplyPartlyWritten \/ hpc = "reply") =>
         /\ target_open
         /\ dials = 1
         /\ target_addr.resolved
    /\ Cardinality(ReplyWrites) <= 1
    /\ ReplyWrites # {} =>
         /\ client_out[Len(client_out)] = ReplyBytes
         /\ Len(client_out) = IF proto = "http" THEN 1 ELSE 2
    /\ hpc \in {"sniff", "nmethods", "methods", "auth_reply", "request", "address",
                "domain", "port", "http_line", "http_headers", "resolve", "dial"} =>
         ReplyWrites = {} /\ ~target_open
    /\ ForwardingStarted =>
         /\ hpc \in {"forwarding", "closed"}
         /\ c2t # "idle" /\ t2c # "idle"
         /\ ReplyWrites # {}
         /\ client_partial = <<>>
         /\ herr = "none"
         /\ target_open
    /\ ResolveOrDialFailed =>
         /\ hpc = "failed"
         /\ ReplyWrites = {}
         /\ client_partial = <<>>
         /\ ~ForwardingStarted
         /\ ~target_open

\* No step goes back: the position never decreases, a failed or closed
\* handler does nothing more, what was written to the client stays written
\* and a task that has started never returns to idle.
C9_Step ==
    /\ Rank(hpc') >= Rank(hpc)
    /\ hpc \in {"failed", "closed"} => UNCHANGED vars
    /\ IsPrefix(client_out, client_out')
    /\ c2t # "idle" => c2t' # "idle"
    /\ t2c # "idle" => t2c' # "idle"
    /\ dials' >= dials

\* C9: on both paths the success reply is written only after the dial has
\* succeeded and at most once, no forwarding direction starts before the
\* reply is written and flushed, the handler never steps back, and after a
\* failed resolution or dial no reply is written and no forwarding starts.
C9_HandshakeOrder == []C9_State /\ [][C9_Step]_vars

\* On the HTTP CONNECT path both directions run after the reply.
C9_Witness ==
    /\ proto = "http"
    /\ hpc = "forwarding"
    /\ c2t = "running" /\ t2c = "running"
    /\ client_out = <<Http200Bytes>>
    /\ target_open

\* The 4-byte request header has been read.
RequestRead == proto = "socks5" /\ Len(request) = 4

\* The 0-based position in client_read of the first byte after the header.
AddrStart == 2 + n_methods + 4

\* The number of address and port bytes of the request read so far.
AddrBytes == Len(client_read) - AddrStart

\* The address and port have been read in full.
AddressParsed ==
    \/ hpc \in {"resolve", "dial", "reply", "forwarding", "closed"}
    \/ hpc = "failed" /\ (ResolveOrDialFailed \/ herr = "Invalid domain name" \/ dials > 0)

\* C10: after the 4-byte request header, the handler fails unless version
\* is 0x05 and command is 0x01; it reads an address only for type 0x01
\* (4 + 2 bytes), 0x03 (1 + length + 2 bytes) or 0x04 (16 + 2 bytes) and
\* fails for any other type; when it rejects, no target is dialed and
\* nothing follows the auth reply.
C10_RequestValidation ==
    /\ (proto = "socks5" /\ ~RequestRead) => target_addr = NoAddr /\ dials = 0
    /\ RequestRead =>
         LET ver == request[1]
             cmd == request[2]
             atyp == request[4]
         IN  /\ request = ReadSlice(2 + n_methods, AddrStart)
             /\ (ver # 5 \/ cmd # 1 \/ atyp \notin {1, 3, 4}) =>
                  /\ hpc = "failed"
                  /\ herr = IF ver # 5 \/ cmd # 1 THEN "Invalid SOCKS5 request"
                            ELSE "Unsupported address type"
                  /\ AddrBytes = 0
                  /\ target_addr = NoAddr
                  /\ dials = 0
                  /\ ~target_open
                  /\ client_out = <<(<<5, 0>>)>>
                  /\ client_partial = <<>>
                  /\ ~ForwardingStarted
             /\ (ver = 5 /\ cmd = 1 /\ atyp \in {1, 3, 4}) =>
                  /\ herr \notin {"Invalid SOCKS5 request", "Unsupported address type"}
                  /\ hpc = "address" => AddrBytes = 0
                  /\ AddressParsed =>
                       /\ atyp = 1 =>
                            /\ AddrBytes = 4 + 2
                            /\ target_addr.host = ReadSlice(AddrStart, AddrStart + 4)
                       /\ atyp = 4 =>
                            /\ AddrBytes = 16 + 2
                            /\ target_addr.host = ReadSlice(AddrStart, AddrStart + 16)
                       /\ atyp = 3 =>
                            LET n == At(client_read, AddrStart)
                            IN  /\ AddrBytes = 1 + n + 2
                                /\ herr # "Invalid domain name" =>
                                     target_addr.host =
                                       ReadSlice(AddrStart + 1, AddrStart + 1 + n)
                       /\ herr # "Invalid domain name" =>
                            target_addr.port =
                              At(client_read, Len(client_read) - 2) * 256
                              + At(client_read, Len(client_read) - 1)
                  /\ dials > 0 => AddressParsed

\* A BIND request (version 5, command 2) was rejected after the auth reply.
C10_Witness ==
    /\ hpc = "failed"
    /\ herr = "Invalid SOCKS5 request"
    /\ request = <<5, 2, 0, 1>>
    /\ client_out = <<(<<5, 0>>)>>
    /\ dials = 0

(***************************************************************************)
(* Claims about the HTTP CONNECT request                                   *)
(***************************************************************************)
\* The 0-based position of the first CR LF CR LF in the accumulated request.
FirstTerminator == StrFind(req_buffer, CRLFCRLF)

\* The length of the request line with its CRLF.
RequestLineLen == StrFind(req_buffer, CRLF).val + 2

\* The handler has left the two read loops of handle_http_connect and has
\* not met the end of the client's stream in them.
HeadersEnded ==
    /\ hpc \notin {"http_line", "http_headers"}
    /\ herr # "io: unexpected eof"

\* C11: once the request line has ended in CRLF, the handler stops reading
\* at the first moment four consecutive accumulated bytes are CR LF CR LF,
\* a request without header lines included, and goes on to parse.
C11_StopsAtTerminator ==
    (proto = "http" /\ FirstTerminator.some) =>
        /\ Len(req_buffer) = FirstTerminator.val + 4
        /\ HeadersEnded

\* The same for the requests with at least one header line: the first
\* CR LF CR LF does not begin with the CRLF of the request line.
StopsAtTerminatorAfterHeader ==
    (proto = "http" /\ FirstTerminator.some
       /\ FirstTerminator.val >= RequestLineLen /\ Len(req_buffer) <= HTTP_MAX) =>
        /\ Len(req_buffer) = FirstTerminator.val + 4
        /\ HeadersEnded

\* A request without header lines: its CR LF CR LF is accumulated and the
\* handler is still in the header loop.
NoHeadersStillReading ==
    /\ hpc = "http_headers"
    /\ EndsWith(req_buffer, CRLFCRLF)
    /\ req_buffer = client_read

\* The handler has ended with one of the two size errors.
TooLongError ==
    /\ hpc = "failed"
    /\ herr \in {"HTTP CONNECT request too long", "HTTP CONNECT headers too long"}

\* The accumulated request was handed to parse_http_connect.
ReachedParsing ==
    /\ proto = "http"
    /\ \/ hpc \in {"resolve", "dial", "reply", "forwarding", "closed"}
       \/ hpc = "failed" /\ herr \notin {"io: unexpected eof",
                                         "HTTP CONNECT request too long",
                                         "HTTP CONNECT headers too long"}

\* C12: the accumulated request that reaches parsing has at most 8192 bytes,
\* and whenever the accumulated size exceeds 8192 bytes the handler fails,
\* also when the byte beyond the cap completes the CRLF of the request line
\* or the CR LF CR LF.
C12_SizeCap ==
    proto = "http" =>
        /\ ReachedParsing => Len(req_buffer) <= HTTP_MAX
        /\ Len(req_buffer) > HTTP_MAX => TooLongError

\* What the code keeps: the cap with one byte more, and the cap itself when
\* the byte beyond it completes neither the CRLF nor the CR LF CR LF.
SizeCapButTerminator ==
    proto = "http" =>
        /\ ReachedParsing => Len(req_buffer) <= HTTP_MAX + 1
        /\ Len(req_buffer) > HTTP_MAX + 1 => TooLongError
        /\ (Len(req_buffer) > HTTP_MAX /\ ~EndsWith(req_buffer, CRLF)) => TooLongError

\* A request of 8193 bytes was parsed and its target is being resolved.
ParsedBeyondCap ==
    /\ hpc = "resolve"
    /\ Len(req_buffer) = HTTP_MAX + 1

(***************************************************************************)
(* proxy.rs: forward_with_desync and forward_normal                        *)
(***************************************************************************)
\* let mut buffer = vec![0u8; 8192]
FORWARD_BUF == 8192

\* The outcomes of reader.read(&mut buffer) when the peer's unread bytes are
\* avail: Ok(n) with some of them, Ok(0) once the peer has sent all it
\* sends, a ConnectionReset error, another error.
ReadOutcomes(avail) ==
    {[kind |-> "data", n |-> n] : n \in 1..Min(Len(avail), FORWARD_BUF)}
    \cup (IF avail = <<>> THEN {[kind |-> "eof", n |-> 0]} ELSE {})
    \cup {[kind |-> "reset", n |-> 0], [kind |-> "error", n |-> 0]}

\* Mutant of ReadEnd: a connection reset is returned as an error.
ReadEndResetFails(kind) == IF kind = "eof" THEN "ok" ELSE "err"

\* How a read that yields no data ends the loop: Ok(0) and ConnectionReset
\* break and the task returns Ok(()), another error is returned.
ReadEnd(kind) == IF kind \in {"eof", "reset"} THEN "ok" ELSE "err"

\* Mutant of ApplyFailed: the result of apply_desync is dropped.
ApplyFailedNever(res) == FALSE

\* The `?` after apply_desync(..).await: an error ends the task.
ApplyFailed(res) == res # "ok"

\* forward_with_desync: one read and, for data, the call of apply_desync
\* with &buffer[..n].
C2tRead ==
    /\ hpc = "forwarding"
    /\ c2t = "running"
    /\ \E o \in ReadOutcomes(client_in) :
         /\ c2t_last' = o.kind
         /\ IF o.kind = "data"
            THEN /\ client_in' = SubSeq(client_in, o.n + 1, Len(client_in))
                 /\ fwd_read' = Append(fwd_read, SubSeq(client_in, 1, o.n))
                 /\ buffer' = SubSeq(client_in, 1, o.n)
                 /\ epc' = "apply_desync"
                 /\ c2t' = "applying"
            ELSE /\ c2t' = ReadEnd(o.kind)
                 /\ UNCHANGED <<client_in, fwd_read, buffer, epc>>
    /\ UNCHANGED <<overflow_checks, config, is_tls, idx, last_pos, total_sent, positions,
                   stream, partial, result, resolved, ranges, offset_vars, server_vars,
                   packets_vars>>
    /\ UNCHANGED <<hpc, proto, client_read, client_out, client_partial, n_methods,
                   methods, request, addr, target_addr, dials, target_open, req_buffer,
                   last_four, herr, t2c, target_out, target_in, target_read, t2c_last,
                   t2c_buf>>

\* forward_with_desync: apply_desync has returned or panicked; after Ok the
\* loop goes to its next read.
C2tApplied ==
    /\ hpc = "forwarding"
    /\ c2t = "applying"
    /\ epc = "done"
    /\ IF ApplyFailed(result)
       THEN /\ c2t' = IF result = "panic" THEN "panic" ELSE "err"
            /\ UNCHANGED <<target_out, buffer, epc, is_tls, idx, last_pos, total_sent,
                           positions, stream, partial, result, resolved, ranges>>
       ELSE /\ c2t' = "running"
            /\ target_out' = target_out \o stream
            /\ buffer' = <<>>
            /\ epc' = "idle"
            /\ is_tls' = FALSE
            /\ idx' = 1
            /\ last_pos' = 0
            /\ total_sent' = 0
            /\ positions' = <<0>>
            /\ stream' = <<>>
            /\ partial' = <<>>
            /\ result' = "none"
            /\ resolved' = <<>>
            /\ ranges' = <<>>
    /\ UNCHANGED <<overflow_checks, config, offset_vars, server_vars, packets_vars>>
    /\ UNCHANGED <<hpc, proto, client_in, client_read, client_out, client_partial,
                   n_methods, methods, request, addr, target_addr, dials, target_open,
                   req_buffer, last_four, herr, t2c, fwd_read, c2t_last, target_in,
                   target_read, t2c_last, t2c_buf>>

\* forward_normal: one read.
T2cRead ==
    /\ hpc = "forwarding"
    /\ t2c = "running"
    /\ \E o \in ReadOutcomes(target_in) :
         /\ t2c_last' = o.kind
         /\ IF o.kind = "data"
            THEN /\ target_in' = SubSeq(target_in, o.n + 1, Len(target_in))
                 /\ target_read' = Append(target_read, SubSeq(target_in, 1, o.n))
                 /\ t2c_buf' = SubSeq(target_in, 1, o.n)
                 /\ t2c' = "writing"
            ELSE /\ t2c' = ReadEnd(o.kind)
                 /\ UNCHANGED <<target_in, target_read, t2c_buf>>
    /\ UNCHANGED <<hpc, proto, client_in, client_read, client_out, client_partial,
                   n_methods, methods, request, addr, target_addr, dials, target_open,
                   req_buffer, last_four, herr, c2t, fwd_read, c2t_last, target_out,
                   engine_vars, offset_vars, server_vars, packets_vars>>

\* Mutant of Written: the whole read buffer is written, not &buffer[..n].
WrittenWhole(buf) == buf \o <<0>>

\* What forward_normal writes for the bytes buf it has read: &buffer[..n].
Written(buf) == buf

\* forward_normal: writer.write_all(&buffer[..n]).await?; writer.flush().await?
T2cWrite ==
    /\ hpc = "forwarding"
    /\ t2c = "writing"
    /\ \E o \in WriteOutcomes(Written(t2c_buf)) :
         /\ ClientWrite(Written(t2c_buf), o)
         /\ t2c' = IF Propagates(o) THEN "err" ELSE "running"
    /\ t2c_buf' = <<>>
    /\ UNCHANGED <<hpc, proto, client_in, client_read, n_methods, methods, request, addr,
                   target_addr, dials, target_open, req_buffer, last_four, herr, c2t,
                   fwd_read, c2t_last, target_out, target_in, target_read, t2c_last,
                   engine_vars, offset_vars, server_vars, packets_vars>>

(***************************************************************************)
(* The two forwarding tasks of one connection                              *)
(***************************************************************************)
\* The policies of the tunnels: none, split at 1, split at 1 and 3, a split
\* rule whose offset overflows, disorder at 1, a decoy before the buffer.
ForwardConfigs ==
    { NoConfig,
      [NoConfig EXCEPT !.split = <<SplitConfig(1, NoFlags)>>],
      [NoConfig EXCEPT !.split = <<SplitConfig(1, NoFlags), SplitConfig(3, NoFlags)>>],
      [NoConfig EXCEPT !.split = <<SplitConfig(I64Min, Flags(FALSE, FALSE, TRUE, FALSE))>>],
      [NoConfig EXCEPT !.disorder = <<SplitConfig(1, NoFlags)>>],
      [NoConfig EXCEPT !.fake = <<FakeConfig(SplitConfig(2, NoFlags),
                                             SomeData(<<170, 187>>))>>] }

\* What the client and the target send through the tunnel.
ForwardClientData == {<<>>, <<1, 2, 3>>}
ForwardTargetData == {<<>>, <<7, 8>>}

\* The handler after a SOCKS5 handshake for 10.0.0.1:443: the success reply
\* is written and both tasks are spawned.
Socks5Tunnel ==
    /\ hpc = "forwarding"
    /\ proto = "socks5"
    /\ client_read = Greeting(<<SOCKS5_AUTH_NONE>>) \o <<5, 1, 0, 1>> \o AddrV4
    /\ client_out = <<AuthResponse, Socks5Response>>
    /\ client_partial = <<>>
    /\ n_methods = 1
    /\ methods = <<SOCKS5_AUTH_NONE>>
    /\ request = <<5, 1, 0, 1>>
    /\ addr = <<10, 0, 0, 1>>
    /\ target_addr = [host |-> <<10, 0, 0, 1>>, port |-> 443, resolved |-> TRUE]
    /\ dials = 1
    /\ target_open = TRUE
    /\ req_buffer = <<>>
    /\ last_four = <<>>
    /\ herr = "none"
    /\ c2t = "running"
    /\ t2c = "running"

ForwardInit ==
    /\ ServerIdle
    /\ PacketsIdle
    /\ overflow_checks \in BOOLEAN
    /\ config \in ForwardConfigs
    /\ buffer = <<>>
    /\ epc = "idle"
    /\ EngineStart
    /\ OffsetIdle
    /\ Socks5Tunnel
    /\ client_in \in ForwardClientData
    /\ fwd_read = <<>>
    /\ c2t_last = "none"
    /\ target_out = <<>>
    /\ target_in \in ForwardTargetData
    /\ target_read = <<>>
    /\ t2c_last = "none"
    /\ t2c_buf = <<>>

ForwardNext ==
    \/ C2tRead
    \/ ApplyDesync
    \/ DefaultSend
    \/ SplitIter
    \/ SplitRest
    \/ DisorderResolve
    \/ DisorderIter
    \/ FakeDecoy
    \/ FakeReal
    \/ C2tApplied
    \/ T2cRead
    \/ T2cWrite
    \/ Join

ForwardSpec == ForwardInit /\ [][ForwardNext]_vars

(***************************************************************************)
(* Claims about forwarding                                                 *)
(***************************************************************************)
\* The bytes written to the target so far, in the order written.
TargetBytes == Flatten(target_out) \o Flatten(stream) \o partial

\* The bytes forward_with_desync has read from the client so far.
ClientBytes == Flatten(fwd_read)

RECURSIVE PlanAll(_)
\* The segments the engine is to write for the reads, read by read.
PlanAll(reads) ==
    IF reads = <<>> THEN <<>>
    ELSE Plan(config, Head(reads)) \o PlanAll(Tail(reads))

\* The reads whose call of apply_desync has returned Ok.
AppliedReads ==
    IF buffer # <<>> THEN SubSeq(fwd_read, 1, Len(fwd_read) - 1) ELSE fwd_read

\* The policy has split rules only, or no rule.
SplitOnlyPolicy == config.disorder = <<>> /\ config.fake = <<>>

C13_State ==
    /\ c2t \in {"idle", "running", "ok"} => buffer = <<>>
    /\ buffer # <<>> =>
         /\ fwd_read # <<>>
         /\ buffer = fwd_read[Len(fwd_read)]
         /\ Len(buffer) <= 8192
         /\ epc # "apply_desync" => IsPrefix(stream, Plan(config, buffer))
    /\ \A k \in 1..Len(fwd_read) : fwd_read[k] # <<>>
    /\ target_out = PlanAll(AppliedReads)
    /\ c2t = "running" =>
         /\ stream = <<>>
         /\ partial = <<>>
         /\ target_out = PlanAll(fwd_read)
    /\ SplitOnlyPolicy => IsPrefix(TargetBytes, ClientBytes)

\* A read is issued only when every segment of the reads before it is
\* written and flushed, and it takes the next bytes of the client.
C13_Step ==
    fwd_read' # fwd_read =>
        /\ c2t = "running"
        /\ stream = <<>> /\ partial = <<>>
        /\ target_out = PlanAll(fwd_read)
        /\ \E n \in 1..Len(client_in) :
             /\ fwd_read' = Append(fwd_read, SubSeq(client_in, 1, n))
             /\ buffer' = SubSeq(client_in, 1, n)

\* C13: forward_with_desync passes every non-empty read whole to
\* apply_desync, and all segments of a read are written and flushed to the
\* target, in the order the engine produces them, before the next read is
\* issued; with split rules only or no rule the bytes written to the target
\* are at every moment a prefix of the bytes read from the client.
C13_ClientToTargetOrder == []C13_State /\ [][C13_Step]_vars

\* Two reads under a split policy: the first was written as two segments,
\* the second is in apply_desync.
C13_Witness ==
    /\ c2t = "applying"
    /\ config.split # <<>>
    /\ Len(fwd_read) = 2
    /\ Len(target_out) = 2
    /\ Len(stream) = 1

\* The number of writes to the client the handshake made.
HandshakeWrites == IF proto = "http" THEN 1 ELSE 2

\* The byte strings forward_normal has written to the client.
TunnelWrites == SubSeq(client_out, HandshakeWrites + 1, Len(client_out))

\* The bytes of the tunnel that reached the client, in the order written.
TunnelToClient == Flatten(TunnelWrites) \o client_partial

C14_State ==
    /\ IsPrefix(TunnelToClient, Flatten(target_read))
    /\ IsPrefix(TunnelWrites, target_read)
    /\ t2c \in {"running", "ok"} =>
         /\ TunnelWrites = target_read
         /\ client_partial = <<>>
         /\ t2c_buf = <<>>
    /\ t2c = "writing" =>
         /\ target_read # <<>>
         /\ t2c_buf = target_read[Len(target_read)]
         /\ TunnelWrites = SubSeq(target_read, 1, Len(target_read) - 1)
         /\ client_partial = <<>>
    /\ t2c = "err" => Len(TunnelWrites) >= Len(target_read) - 1

\* A read is issued only when every earlier read is written and flushed, and
\* a write hands the client the bytes of the last read and nothing else.
C14_Step ==
    /\ target_read' # target_read =>
         /\ t2c = "running"
         /\ TunnelWrites = target_read
         /\ \E n \in 1..Len(target_in) :
              target_read' = Append(target_read, SubSeq(target_in, 1, n))
    /\ (client_out' # client_out /\ hpc = "forwarding") =>
         client_out' = Append(client_out, target_read[Len(target_read)])

\* C14: under every policy the bytes forward_normal writes to the client
\* are the bytes it read from the target, read by read, in the same order,
\* with no split, reorder or decoy, and each read is written and flushed
\* before the next read.
C14_TargetToClientVerbatim == []C14_State /\ [][C14_Step]_vars

\* Under a disorder policy two reads of the target were written to the
\* client as they were read.
C14_Witness ==
    /\ config.disorder # <<>>
    /\ t2c = "running"
    /\ target_read = <<(<<7>>), (<<8>>)>>
    /\ TunnelWrites = target_read
    /\ target_out # <<>>

\* The steps of each direction.
C2tSteps ==
    \/ C2tRead
    \/ ApplyDesync \/ DefaultSend \/ SplitIter \/ SplitRest
    \/ DisorderResolve \/ DisorderIter \/ FakeDecoy \/ FakeReal
    \/ C2tApplied
T2cSteps == T2cRead \/ T2cWrite

\* What belongs to each direction.
c2t_side == <<c2t, client_in, fwd_read, c2t_last, target_out, engine_vars>>
t2c_side == <<t2c, target_in, target_read, t2c_last, t2c_buf, client_out, client_partial>>

C15_State ==
    /\ hpc = "closed" =>
         /\ c2t \in {"ok", "err", "panic"}
         /\ t2c \in {"ok", "err"}
    /\ (hpc = "forwarding" /\ c2t \in {"running", "applying"}) => ENABLED C2tSteps
    /\ (hpc = "forwarding" /\ t2c \in {"running", "writing"}) => ENABLED T2cSteps
    /\ (c2t \in {"running", "applying"} \/ t2c \in {"running", "writing"}) =>
         hpc = "forwarding"

\* A step of one direction, its end included, leaves the other direction
\* as it is; a direction ends only by a step of its own; the handler
\* closes only when both have ended.
C15_Step ==
    /\ c2t_side' # c2t_side => UNCHANGED t2c_side
    /\ t2c_side' # t2c_side => UNCHANGED c2t_side
    /\ (c2t' # c2t /\ c2t' \in {"ok", "err", "panic"}) => c2t \in {"running", "applying"}
    /\ (t2c' # t2c /\ t2c' \in {"ok", "err"}) => t2c \in {"running", "writing"}
    /\ hpc' # hpc =>
         /\ hpc' = "closed"
         /\ c2t \in {"ok", "err", "panic"}
         /\ t2c \in {"ok", "err"}
         /\ UNCHANGED <<c2t_side, t2c_side>>

\* C15: the end of one forwarding direction (end of stream, reset or error)
\* never stops or cancels the other, which goes on reading and writing
\* until its own end, and the handler is closed only after both directions
\* have ended, in every interleaving.
C15_Independence == []C15_State /\ [][C15_Step]_vars

\* The client->target direction has ended without a read of data, and the
\* target->client direction has forwarded two reads and is at its next.
C15_Witness ==
    /\ hpc = "forwarding"
    /\ c2t = "err"
    /\ fwd_read = <<>>
    /\ t2c = "running"
    /\ Len(target_read) = 2
    /\ TunnelWrites = target_read

\* The outcome of a task agrees with the outcome last of its last read.
ReadClassified(task, last) ==
    /\ last \in {"eof", "reset"} => task = "ok"
    /\ last = "error" => task = "err"
    /\ task = "ok" => last \in {"eof", "reset"}
    /\ last = "none" => task \in {"idle", "running"}

C16_State ==
    /\ ReadClassified(c2t, c2t_last)
    /\ ReadClassified(t2c, t2c_last)
    /\ c2t_last \in {"eof", "reset", "error"} =>
         /\ epc = "idle" /\ stream = <<>> /\ partial = <<>>
         /\ target_out = PlanAll(fwd_read)
    /\ t2c_last \in {"eof", "reset", "error"} =>
         /\ t2c_buf = <<>> /\ client_partial = <<>>
         /\ TunnelWrites = target_read
    /\ c2t_last = "eof" => client_in = <<>>
    /\ t2c_last = "eof" => target_in = <<>>

\* The read that ends a direction takes no byte and is followed by no write
\* of that direction.
C16_Step ==
    /\ (c2t_last' # c2t_last /\ c2t_last' # "data") =>
         /\ c2t = "running"
         /\ UNCHANGED <<client_in, fwd_read, target_out, stream, partial, buffer>>
    /\ c2t_last \in {"eof", "reset", "error"} =>
         UNCHANGED <<c2t, c2t_last, client_in, fwd_read, target_out, stream, partial>>
    /\ (t2c_last' # t2c_last /\ t2c_last' # "data") =>
         /\ t2c = "running"
         /\ UNCHANGED <<target_in, target_read, client_out, client_partial, t2c_buf>>
    /\ t2c_last \in {"eof", "reset", "error"} =>
         UNCHANGED <<t2c, t2c_last, target_in, target_read, client_out, client_partial>>

\* C16: in both forwarding loops a read of 0 bytes and a connection-reset
\* read error end the direction with Ok, every other read error ends it
\* with an error, and no write is performed for the read that ended the
\* direction.
C16_ReadOutcomes == []C16_State /\ [][C16_Step]_vars

\* The client's stream was reset with bytes unread and the direction ended
\* with Ok; a read of the target failed and that direction ended with an
\* error.
C16_Witness ==
    /\ c2t = "ok"
    /\ c2t_last = "reset"
    /\ client_in # <<>>
    /\ fwd_read # <<>>
    /\ t2c = "err"
    /\ t2c_last = "error"

(***************************************************************************)
(* proxy.rs: ProxyServer::run, the accept loop                             *)
(***************************************************************************)
\* What is unchanged by the steps of the accept loop and its handlers, seen
\* from outside: the state of the one connection followed in detail.
connection_vars ==
    <<engine_vars, offset_vars, hpc, proto, client_in, client_read, client_out,
      client_partial, n_methods, methods, request, addr, target_addr, dials,
      target_open, req_buffer, last_four, herr, c2t, t2c, forward_vars>>

\* A client connects to the listener.
Arrive ==
    /\ arrived < MaxConns
    /\ arrived' = arrived + 1
    /\ UNCHANGED <<srv, handlers, accept_errs, connection_vars, packets_vars>>

\* listener.accept() returns Ok((stream, client_addr)): a handle_client
\* task is spawned and the loop goes on.
AcceptOk ==
    /\ srv = "accepting"
    /\ Len(handlers) < arrived
    /\ handlers' = Append(handlers, "running")
    /\ UNCHANGED <<srv, arrived, accept_errs, connection_vars, packets_vars>>

\* Mutant of AcceptErrorEnds: `listener.accept().await?`.
AcceptErrorEndsRun(e) == TRUE

\* The Err arm of the match on accept: the error is logged and the loop
\* goes on.
AcceptErrorEnds(e) == FALSE

\* listener.accept() returns an error.
AcceptErr ==
    /\ srv = "accepting"
    /\ accept_errs < MaxAcceptErrors
    /\ accept_errs' = accept_errs + 1
    /\ srv' = IF AcceptErrorEnds(accept_errs') THEN "exited" ELSE "accepting"
    /\ UNCHANGED <<arrived, handlers, connection_vars, packets_vars>>

\* How a spawned handle_client task can end: it returns Ok(()), it returns
\* an error (which the task logs), or it panics.
HandlerOutcomes == {"ok", "failed", "panicked"}

\* A spawned handler ends; the JoinHandle is dropped, nothing awaits it.
HandlerEnds ==
    /\ \E i \in 1..Len(handlers) :
         /\ handlers[i] = "running"
         /\ \E o \in HandlerOutcomes : handlers' = [handlers EXCEPT ![i] = o]
    /\ UNCHANGED <<srv, arrived, accept_errs, connection_vars, packets_vars>>

ServerInit ==
    /\ ServerIdle
    /\ PacketsIdle
    /\ overflow_checks = FALSE
    /\ config = NoConfig
    /\ buffer = <<>>
    /\ epc = "idle"
    /\ EngineStart
    /\ OffsetIdle
    /\ ProxyIdle

ServerNext ==
    \/ Arrive
    \/ AcceptOk
    \/ AcceptErr
    \/ HandlerEnds

\* The loop is at accept().await whenever it is not spawning: a client that
\* has connected is accepted unless accept keeps failing, and accept fails
\* a bounded number of times.
ServerSpec == ServerInit /\ [][ServerNext]_vars /\ WF_vars(AcceptOk)

\* C17: once the listener is bound the accept loop never ends: after any
\* accept failures and any handlers that failed or panicked the server is
\* still accepting, and every client that connects later is still accepted
\* and given a handler.
C17_AcceptLoop ==
    /\ [](srv = "accepting")
    /\ [][srv' = srv]_vars
    /\ \A n \in 1..MaxConns : (arrived >= n) ~> (Len(handlers) >= n)

\* After a failed accept, a failed handler and a panicked handler, a later
\* client has its handler running.
C17_Witness ==
    /\ srv = "accepting"
    /\ accept_errs >= 1
    /\ Len(handlers) >= 3
    /\ handlers[1] = "failed"
    /\ handlers[2] = "panicked"
    /\ handlers[Len(handlers)] = "running"

(***************************************************************************)
(* packets.rs: the inspector on its own                                    *)
(***************************************************************************)
\* One extension on the wire: 2-byte type, 2-byte length, payload.
ExtBytes(e) ==
    <<e.type \div 256, e.type % 256, Len(e.body) \div 256, Len(e.body) % 256>>
    \o e.body

\* The extensions es on the wire, one after the other.
ExtsBytes(es) == Flatten([i \in 1..Len(es) |-> ExtBytes(es[i])])

\* The record that carries the ClientHello h: record header (content type,
\* version, length), handshake header (type 1, 3-byte length), client
\* version, random, session id, cipher suites, compression methods and the
\* extensions block, each list behind its length.
HelloBytes(h) ==
    LET exts == ExtsBytes(h.exts)
        body == <<3, 3>> \o Rep(32, h.rnd)
                \o <<Len(h.sid)>> \o h.sid
                \o <<Len(h.cs) \div 256, Len(h.cs) % 256>> \o h.cs
                \o <<Len(h.comp)>> \o h.comp
                \o <<Len(exts) \div 256, Len(exts) % 256>> \o exts
        hs == <<1, 0, Len(body) \div 256, Len(body) % 256>> \o body
    IN  <<h.ct, h.ver \div 256, h.ver % 256, Len(hs) \div 256, Len(hs) % 256>>
        \o hs

\* The server_name extension with one entry of name type nt: list length,
\* name type, name length, name.
Sni(nt, name) ==
    [type |-> 0,
     body |-> <<0, Len(name) + 3, nt, 0, Len(name)>> \o name]
\* supported_groups, ALPN and renegotiation_info.
ExtGroups == [type |-> 10, body |-> <<0, 2, 0, 29>>]
ExtAlpn == [type |-> 16, body |-> <<0, 3, 2, 104, 50>>]
ExtReneg == [type |-> 65281, body |-> <<0>>]

\* The extension lists of the samples: with a host name entry first, last
\* and in the middle, with no server_name extension, with none at all, and
\* with an entry that is not a host name.
ExtLists ==
    {<<Sni(0, NameAb)>>,
     <<ExtGroups, Sni(0, NameAb)>>,
     <<Sni(0, NameHost), ExtAlpn>>,
     <<ExtReneg, ExtGroups, Sni(0, NameAb), ExtAlpn>>,
     <<>>,
     <<ExtGroups>>,
     <<ExtReneg, ExtAlpn>>,
     <<Sni(1, NameAb)>>,
     <<ExtGroups, Sni(2, NameAb), ExtAlpn>>}

\* The ClientHello messages of the samples.
Hellos ==
    [ct : {22}, ver : {769, 771, 772}, rnd : {7}, sid : {<<>>, <<9, 9>>},
     cs : {<<19, 1>>}, comp : {<<0>>}, exts : ExtLists]
    \cup
    [ct : {21, 23}, ver : {771}, rnd : {7}, sid : {<<>>}, cs : {<<19, 1>>},
     comp : {<<0>>}, exts : {<<Sni(0, NameAb)>>}]
    \cup
    [ct : {22}, ver : {768, 773, 515}, rnd : {7}, sid : {<<>>},
     cs : {<<19, 1>>}, comp : {<<0>>}, exts : {<<Sni(0, NameAb)>>}]

\* The ClientHello messages whose length fields are overwritten.
PokedHellos ==
    [ct : {22}, ver : {771}, rnd : {255}, sid : {<<>>, <<9, 9>>},
     cs : {<<19, 1>>}, comp : {<<0>>},
     exts : {<<ExtGroups, Sni(0, NameAb)>>, <<ExtGroups>>}]

\* Where the extensions block of h starts, behind its 2-byte length.
ExtsStart(h) == 43 + 1 + Len(h.sid) + 2 + Len(h.cs) + 1 + Len(h.comp) + 2

\* The first byte of each length field of h: session id, cipher suites,
\* compression methods, extensions block, and of each extension its length
\* and, in a server_name extension, the list length and the name length.
LengthFields(h) ==
    {43, 44 + Len(h.sid), 45 + Len(h.sid),
     46 + Len(h.sid) + Len(h.cs),
     ExtsStart(h) - 2, ExtsStart(h) - 1}
    \cup UNION {LET at == ExtsStart(h) + Len(ExtsBytes(SubSeq(h.exts, 1, i - 1)))
                IN  {at + 2, at + 3} \cup
                    (IF h.exts[i].type = 0 THEN {at + 4, at + 5, at + 7, at + 8}
                     ELSE {})
                : i \in 1..Len(h.exts)}

\* The values written over a length byte.
PokeBytes == {0, 255}

\* The bytes b with the byte at index pk[1] replaced by pk[2], if any.
Poke(b, pk) ==
    IF pk = <<>> THEN b
    ELSE [i \in 1..Len(b) |-> IF i = pk[1] + 1 THEN pk[2] ELSE b[i]]

\* A sample that is a ClientHello, one of its bytes overwritten or none,
\* cut after its first n bytes.
HelloSample(h, pk, n) ==
    [kind |-> "hello", hello |-> h, cut |-> n, poke |-> pk, text |-> <<>>,
     req |-> NoReq]
\* A sample that is the bytes t as they are.
TextSample(t) ==
    [kind |-> "text", hello |-> NoHello, cut |-> Len(t), poke |-> <<>>,
     text |-> t, req |-> NoReq]

\* The target token of a described request: host, ":" or nothing, port.
ReqTarget(q) == q.host \o (IF q.colon THEN <<58>> ELSE <<>>) \o q.port
\* The bytes of a described request: what stands before the target token,
\* the token, and what follows it.
ReqBytes(q) == q.prefix \o ReqTarget(q) \o q.tail
\* A sample that is a described request.
ReqSample(q) ==
    [kind |-> "request", hello |-> NoHello, cut |-> Len(ReqBytes(q)),
     poke |-> <<>>, text |-> <<>>, req |-> q]

\* "CONNECT " and "CONNECT  ": the first line starts with "CONNECT ".
ReqGoodPrefixes == {ConnectPrefix, ConnectPrefix \o <<32>>}
\* "COPY ", "connect ", "CONNECT<TAB>" and " CONNECT ": it does not.
ReqBadPrefixes ==
    {<<67, 79, 80, 89, 32>>,
     <<99, 111, 110, 110, 101, 99, 116, 32>>,
     <<67, 79, 78, 78, 69, 67, 84, 9>>,
     <<32>> \o ConnectPrefix}
\* "example.com", "a", "" and "h" followed by U+00E9.
ReqHosts ==
    {<<101, 120, 97, 109, 112, 108, 101, 46, 99, 111, 109>>, <<97>>, <<>>,
     <<104, 195, 169>>}
\* "443", "0", "65535", "00080", "65536", "999999", "b", "4x", "", "1:2",
\* "+443" and "-0".
ReqPorts ==
    {<<52, 52, 51>>, <<48>>, <<54, 53, 53, 51, 53>>, <<48, 48, 48, 56, 48>>,
     <<54, 53, 53, 51, 54>>, <<57, 57, 57, 57, 57, 57>>, <<98>>, <<52, 120>>,
     <<>>, <<49, 58, 50>>, <<43, 52, 52, 51>>, <<45, 48>>}
\* " HTTP/1.1\r\nHost: example.com\r\n\r\n", nothing, "\r\n\r\n", "\n",
\* U+00A0 and "x".
ReqGoodTails ==
    {<<32, 72, 84, 84, 80, 47, 49, 46, 49, 13, 10>> \o HostHeader
        \o <<101, 120, 97, 109, 112, 108, 101, 46, 99, 111, 109, 13, 10, 13, 10>>,
     <<>>, <<13, 10, 13, 10>>, <<10>>, <<194, 160, 120>>}
\* " H\r\nX: <0xFF>\r\n\r\n": a header line that is not text.
ReqBadTails == {<<32, 72, 13, 10, 88, 58, 32, 255, 13, 10, 13, 10>>}

\* The described requests handed to parse_http_connect.
Reqs ==
    [prefix : ReqGoodPrefixes \cup ReqBadPrefixes, host : ReqHosts,
     colon : BOOLEAN, port : ReqPorts, tail : ReqGoodTails \cup ReqBadTails]

\* The bytes of a sample.
SampleBytes(x) ==
    IF x.kind = "hello"
    THEN Slice(Poke(HelloBytes(x.hello), x.poke), 0, x.cut)
    ELSE IF x.kind = "request" THEN ReqBytes(x.req)
    ELSE x.text

\* Texts with and without "Host: ", the literal once, twice, in other
\* letter case, cut short, alone, and among bytes that are not UTF-8.
Texts ==
    {BufEmpty, BufOne, BufFive, BufHttp, BufHttpBad, HostHeader,
     Slice(HostHeader, 0, 5),
     <<104, 111, 115, 116, 58, 32, 97>>,
     <<72, 79, 83, 84, 58, 32, 97>>,
     HostHeader \o HostHeader,
     <<71, 10>> \o HostHeader \o NameAb \o <<13, 10>> \o HostHeader \o <<99>>,
     <<72, 111, 115, 116, 58, 97, 32>> \o HostHeader,
     <<195, 169>> \o HostHeader \o NameAb,
     HostHeader \o <<195, 169>>,
     HostHeader \o NameAb \o <<128>>,
     HostHeader \o <<195>>,
     <<192, 128>> \o Slice(HostHeader, 0, 5)}

\* The samples handed to the inspector: every ClientHello at every length,
\* those with one length byte overwritten at every length, and the texts.
Samples ==
    UNION {{HelloSample(h, <<>>, n) : n \in 0..Len(HelloBytes(h))} : h \in Hellos}
    \cup
    UNION {{HelloSample(h, <<at, b>>, n) :
               at \in LengthFields(h), b \in PokeBytes,
               n \in 0..Len(HelloBytes(h))} : h \in PokedHellos}
    \cup {TextSample(t) : t \in Texts}
    \cup {ReqSample(q) : q \in Reqs}

\* let r = find_sni_offset(&buffer)
FindSniOffset ==
    /\ ~sni_run.called
    /\ sni_run' = [called |-> TRUE, run |-> SniRun(buffer)]
    /\ UNCHANGED <<sample, host_res, connect_res, record_res, connection_vars,
                   server_vars>>

\* let r = find_http_host_offset(&buffer)
FindHttpHostOffset ==
    /\ ~host_res.called
    /\ host_res' = [called |-> TRUE, result |-> find_http_host_offset(buffer)]
    /\ UNCHANGED <<sample, sni_run, connect_res, record_res, connection_vars,
                   server_vars>>

\* let r = parse_http_connect(&buffer)
ParseHttpConnect ==
    /\ ~connect_res.called
    /\ connect_res' = [called |-> TRUE, result |-> parse_http_connect(buffer)]
    /\ UNCHANGED <<sample, sni_run, host_res, record_res, connection_vars,
                   server_vars>>

PacketsInit ==
    /\ ServerIdle
    /\ sample \in Samples
    /\ buffer = SampleBytes(sample)
    /\ sni_run = SniNotRun
    /\ host_res = HostNotRun
    /\ connect_res = ConnectNotRun
    /\ record_res = RecordNotRun
    /\ overflow_checks = FALSE
    /\ config = NoConfig
    /\ epc = "idle"
    /\ EngineStart
    /\ OffsetIdle
    /\ ProxyIdle

PacketsNext ==
    \/ FindSniOffset
    \/ FindHttpHostOffset
    \/ ParseHttpConnect

PacketsSpec == PacketsInit /\ [][PacketsNext]_vars

\* The run of find_sni_offset that tracks the reads returns what
\* find_sni_offset returns.
SniRunIsFindSniOffset ==
    sni_run.called /\ ~sni_run.run.panicked
        => sni_run.run.result = find_sni_offset(buffer)

\* C18: find_sni_offset never reads out of bounds: on every buffer, the
\* truncated ones and the ones with an overwritten (zero or very large)
\* length field included, every index it reads is below the length of the
\* buffer, it returns instead of panicking, and an offset it returns is at
\* most the length of the buffer.
C18_NoOverread ==
    sni_run.called =>
        /\ ~sni_run.run.panicked
        /\ \A k \in 1..Len(sni_run.run.reads) :
               sni_run.run.reads[k] < Len(buffer)
        /\ sni_run.run.result.some => sni_run.run.result.val <= Len(buffer)

\* A truncated ClientHello with a length byte overwritten by 0xFF was
\* parsed up to that length field and beyond the session id length, and
\* the run returned None.
C18_Witness ==
    /\ sni_run.called
    /\ sample.kind = "hello"
    /\ sample.poke # <<>>
    /\ sample.poke[2] = 255
    /\ sample.cut < Len(HelloBytes(sample.hello))
    /\ \E k \in 1..Len(sni_run.run.reads) :
           sni_run.run.reads[k] = sample.poke[1]
    /\ ~sni_run.run.panicked
    /\ sni_run.run.result = None

\* The ClientHello h has a server_name extension.
HasSni(h) == \E i \in 1..Len(h.exts) : h.exts[i].type = 0
\* Its first server_name extension.
SniIndex(h) ==
    CHOOSE i \in 1..Len(h.exts) :
        h.exts[i].type = 0 /\ \A j \in 1..(i - 1) : h.exts[j].type # 0
\* The name type and the name of the entry of that extension.
SniNameType(h) == h.exts[SniIndex(h)].body[3]
SniName(h) == SubSeq(h.exts[SniIndex(h)].body, 6, Len(h.exts[SniIndex(h)].body))
\* Where the host name starts in the record: behind the extensions before
\* the server_name extension, its 4-byte header, the 2-byte list length,
\* the name type and the 2-byte name length.
SniNameOffset(h) ==
    ExtsStart(h) + Len(ExtsBytes(SubSeq(h.exts, 1, SniIndex(h) - 1)))
    + 4 + 2 + 1 + 2

\* The record of h is a handshake record of TLS 1.0 to 1.3.
IsClientHello(h) == h.ct = 22 /\ h.ver >= 769 /\ h.ver <= 772

\* The sample is a whole ClientHello as built, nothing overwritten.
WholeHello(x) ==
    x.kind = "hello" /\ x.poke = <<>> /\ x.cut = Len(HelloBytes(x.hello))
\* The sample is a ClientHello cut inside one of the steps of the parse,
\* the last of which reads the length of the host name.
CutInParse(x) ==
    /\ x.kind = "hello"
    /\ x.poke = <<>>
    /\ \/ ~HasSni(x.hello) /\ x.cut < Len(HelloBytes(x.hello))
       \/ HasSni(x.hello) /\ x.cut < SniNameOffset(x.hello)

\* C19: for a whole ClientHello with a server_name extension that holds a
\* host name entry find_sni_offset returns the offset of the first byte of
\* the host name; it returns None when the content type is not 0x16, when
\* the version is outside 0x0301..0x0304, when the buffer is cut inside a
\* step of the parse, when the ClientHello has no server_name extension and
\* when the entry's name type is not 0.
C19_SniOffset ==
    sni_run.called /\ sample.kind = "hello" /\ sample.poke = <<>> =>
        LET h == sample.hello
            r == sni_run.run.result
            named == /\ WholeHello(sample)
                     /\ IsClientHello(h)
                     /\ HasSni(h)
                     /\ SniNameType(h) = 0
        IN  /\ named => r = Some(SniNameOffset(h))
            /\ named => Slice(buffer, r.val, r.val + Len(SniName(h))) = SniName(h)
            /\ h.ct # 22 => r = None
            /\ (h.ver < 769 \/ h.ver > 772) => r = None
            /\ CutInParse(sample) => r = None
            /\ WholeHello(sample) /\ ~HasSni(h) => r = None
            /\ HasSni(h) /\ SniNameType(h) # 0 => r = None

\* The offset of a host name behind two other extensions was returned for a
\* whole ClientHello with a session id.
C19_Witness ==
    /\ sni_run.called
    /\ WholeHello(sample)
    /\ IsClientHello(sample.hello)
    /\ sample.hello.sid # <<>>
    /\ HasSni(sample.hello)
    /\ SniIndex(sample.hello) = 3
    /\ sni_run.run.result = Some(SniNameOffset(sample.hello))
    /\ Slice(buffer, sni_run.run.result.val, sni_run.run.result.val + 2) = NameAb

\* The offset behind the first "Host: " of the buffer, None without one.
AfterFirstHost(b) ==
    LET pos == StrFind(b, HostHeader)
    IN  IF pos.some THEN Some(pos.val + 6) ELSE None

\* C20: on every buffer find_http_host_offset returns Some(i + 6) for the
\* first occurrence i of the six bytes "Host: ", and None exactly when the
\* buffer holds no occurrence, whatever the bytes around it, bytes that are
\* not UTF-8 included.
C20_HostOffset ==
    host_res.called => host_res.result = AfterFirstHost(buffer)

\* On a buffer that is UTF-8 the result is the offset behind the first
\* "Host: ", and on every buffer a result that is not None is that offset.
HostOffsetOnUtf8 ==
    host_res.called =>
        /\ IsUtf8(buffer) => host_res.result = AfterFirstHost(buffer)
        /\ host_res.result.some => host_res.result = AfterFirstHost(buffer)

\* A buffer that holds "Host: " and a byte that is not UTF-8 got None.
HostMissedNotUtf8 ==
    /\ host_res.called
    /\ ~IsUtf8(buffer)
    /\ StrFind(buffer, HostHeader).some
    /\ host_res.result = None

\* The text t is one or more decimal digits.
IsDigits(t) == t # <<>> /\ \A k \in 1..Len(t) : t[k] >= 48 /\ t[k] <= 57
\* The text t without the "+" it may start with.
Unsigned(t) == IF t # <<>> /\ t[1] = 43 THEN Tail(t) ELSE t

\* The first colon of the target token of the described request q, the
\* text before it and the text after it.
ReqColon(q) == StrFind(ReqTarget(q), <<58>>)
ReqHostText(q) == Slice(ReqTarget(q), 0, ReqColon(q).val)
ReqPortText(q) == Slice(ReqTarget(q), ReqColon(q).val + 1, Len(ReqTarget(q)))

\* What parse_http_connect is to return for the described request q when
\* the texts Port(t) are the decimal ports: (host, port) for a text whose
\* first line starts with "CONNECT " and whose target token has a colon
\* followed by a decimal port in 0..65535; None for bytes that are not text,
\* another start of the line, no target token, no colon, a port that is not
\* decimal or not in range.
ConnectAsDescribed(q, r, Port(_)) ==
    LET target == ReqTarget(q)
        colon == ReqColon(q)
        port == ReqPortText(q)
        described == /\ q.tail \in ReqGoodTails
                     /\ q.prefix \in ReqGoodPrefixes
                     /\ colon.some
                     /\ Port(port)
                     /\ DecVal(Unsigned(port)) <= 65535
    IN  /\ described => r = SomeTarget(ReqHostText(q), DecVal(Unsigned(port)))
        /\ q.tail \in ReqBadTails => r = NoTarget
        /\ q.prefix \in ReqBadPrefixes => r = NoTarget
        /\ target = <<>> => r = NoTarget
        /\ ~colon.some => r = NoTarget
        /\ colon.some /\ ~Port(port) => r = NoTarget
        /\ colon.some /\ Port(port) /\ DecVal(Unsigned(port)) > 65535
             => r = NoTarget

\* C21: for a buffer whose first line is "CONNECT host:port ..." with a
\* decimal port in 0..65535 parse_http_connect returns host, the text before
\* the first colon of the target token, and port, the number after it; it
\* returns None when the buffer is not valid text, when the first line does
\* not start with "CONNECT ", when the target token is missing or has no
\* colon, and when the port is not numeric or out of range.
C21_ParseConnect ==
    connect_res.called /\ sample.kind = "request" =>
        ConnectAsDescribed(sample.req, connect_res.result, IsDigits)

\* The same with a port that may start with "+", as str::parse::<u16> reads
\* it.
ParseConnectSigned ==
    connect_res.called /\ sample.kind = "request" =>
        ConnectAsDescribed(sample.req, connect_res.result,
                           LAMBDA t : IsDigits(Unsigned(t)))

\* The port text "+443" was returned as port 443.
PlusPortParsed ==
    /\ connect_res.called
    /\ sample.kind = "request"
    /\ ReqColon(sample.req).some
    /\ ReqPortText(sample.req) = <<43, 52, 52, 51>>
    /\ connect_res.result.some
    /\ connect_res.result.port = 443

(***************************************************************************)
(* packets.rs: split_tls_record                                            *)
(***************************************************************************)
\* A TLS record of content type ct and version 3.ver with payload 1, 2, ..
\* of n bytes and the length field len.
TlsRecord(ct, ver, len, n) ==
    <<ct, 3, ver, len \div 256, len % 256>> \o [i \in 1..n |-> i]

\* The buffers handed to split_tls_record: one record with each payload
\* length, a record with a payload of 300 bytes, two records one after the
\* other, records whose length field says more or less than the buffer
\* holds, and buffers shorter than a record header.
RecordBuffers ==
    {TlsRecord(22, 1, n, n) : n \in 0..MaxPayload}
    \cup {TlsRecord(23, 3, 300, 300)}
    \cup {TlsRecord(22, 3, 3, 3) \o TlsRecord(23, 3, n, n) : n \in 0..MaxPayload}
    \cup {TlsRecord(22, 3, 65535, MaxPayload), TlsRecord(22, 3, 1, MaxPayload)}
    \cup {<<>>, <<22>>, <<22, 3, 1, 0>>}

\* buffer.clone() is split at a position up to one beyond its end.
SplitTlsRecord ==
    /\ ~record_res.called
    /\ \E position \in 0..(Len(buffer) + 1) :
         \E r \in {split_tls_record(buffer, position, overflow_checks)} :
           record_res' = [called |-> TRUE, position |-> position,
                          status |-> r.status, buffer |-> r.buffer]
    /\ UNCHANGED <<sample, sni_run, host_res, connect_res, connection_vars,
                   server_vars>>

RecordInit ==
    /\ ServerIdle
    /\ PacketsIdle
    /\ overflow_checks \in BOOLEAN
    /\ config = NoConfig
    /\ buffer \in RecordBuffers
    /\ epc = "idle"
    /\ EngineStart
    /\ OffsetIdle
    /\ ProxyIdle

RecordNext == SplitTlsRecord

RecordSpec == RecordInit /\ [][RecordNext]_vars

\* The record length field of the buffer b.
RecordLen(b) == U16(At(b, 3), At(b, 4))

\* The split the call is to make of the buffer: it grew by 5 bytes, the
\* first record's length is position - 5, at position stands a header with
\* the content type and version of the first and the rest of the length,
\* both lengths are 16-bit values that add up to the length of the record,
\* and the payload bytes before and behind the new header are those of the
\* buffer in their order.
SplitAt(before, position, after) ==
    LET first == position - 5
        second == RecordLen(before) - first
    IN  /\ Len(after) = Len(before) + 5
        /\ first >= 0 /\ first <= 65535
        /\ second >= 0 /\ second <= 65535
        /\ RecordLen(after) = first
        /\ Slice(after, position, position + 5) =
              <<At(before, 0), At(before, 1), At(before, 2),
                second \div 256, second % 256>>
        /\ Slice(after, 0, 3) = Slice(before, 0, 3)
        /\ Slice(after, 5, position) = Slice(before, 5, position)
        /\ Slice(after, position + 5, Len(after)) =
              Slice(before, position, Len(before))

\* C22: for every buffer and position split_tls_record fails with an
\* invalid-input error and leaves the buffer as it was when fewer than 5
\* bytes remain after position; otherwise it succeeds and has split the
\* record at position.
C22_SplitRecord ==
    record_res.called =>
        IF Len(buffer) < record_res.position + 5
        THEN record_res.status = "invalid_input" /\ record_res.buffer = buffer
        ELSE /\ record_res.status = "ok"
             /\ SplitAt(buffer, record_res.position, record_res.buffer)

\* The position lies in the payload of the first record: behind its header
\* and not beyond the length its length field gives.
InFirstRecord(b, position) ==
    position >= 5 /\ position - 5 <= RecordLen(b)

\* The same for the positions in the payload of the first record; and no
\* call changes the buffer unless it succeeds.
SplitRecordInPayload ==
    record_res.called =>
        /\ Len(buffer) < record_res.position + 5 =>
              record_res.status = "invalid_input"
        /\ record_res.status # "ok" => record_res.buffer = buffer
        /\ Len(buffer) >= record_res.position + 5
              /\ InFirstRecord(buffer, record_res.position) =>
                 /\ record_res.status = "ok"
                 /\ SplitAt(buffer, record_res.position, record_res.buffer)

\* A position in the record header with room behind it: the call panicked.
SplitInHeaderPanicked ==
    /\ record_res.called
    /\ record_res.position < 5
    /\ Len(buffer) >= record_res.position + 5
    /\ record_res.status = "panicked"

\* The same in a build that wraps: the call succeeded and the first
\* record's length field holds the wrapped position - 5.
SplitInHeaderWrapped ==
    /\ record_res.called
    /\ record_res.position = 0
    /\ Len(buffer) >= 10
    /\ record_res.status = "ok"
    /\ Slice(record_res.buffer, 8, 10) = <<255, 251>>

(***************************************************************************)
(* desync.rs: offsets and ranges                                           *)
(***************************************************************************)
\* C23: in every call of apply_desync every offset calculate_offset has
\* returned lies in 0..buffer.len(), every range of the buffer handed to a
\* write has 0 <= start <= end <= buffer.len(), and with the split and the
\* disorder technique every such range is non-empty.
C23_OffsetsClamped ==
    /\ \A k \in 1..Len(resolved) :
           resolved[k] >= 0 /\ resolved[k] <= Len(buffer)
    /\ \A k \in 1..Len(ranges) :
           /\ 0 <= ranges[k][1]
           /\ ranges[k][1] <= ranges[k][2]
           /\ ranges[k][2] <= Len(buffer)
           /\ SelectTechnique(config) \in {"split", "disorder"}
                => ranges[k][1] < ranges[k][2]

\* A split call has returned Ok after two writes; one of its rules has an
\* offset beyond the buffer, which was resolved to the length of the buffer,
\* and the ranges written are the buffer up to the first cut and the rest.
C23_Witness ==
    /\ epc = "done"
    /\ result = "ok"
    /\ SelectTechnique(config) = "split"
    /\ Len(resolved) = 2
    /\ config.split[2].offset > Len(buffer)
    /\ resolved[2] = Len(buffer)
    /\ Len(ranges) = 2
    /\ ranges[1][1] = 0
    /\ ranges[1][2] = ranges[2][1]
    /\ ranges[2][2] = Len(buffer)

(***************************************************************************)
(* proxy.rs: a rejected handshake                                          *)
(***************************************************************************)
\* The handler has returned one of its protocol errors.
ProtocolViolation ==
    /\ hpc = "failed"
    /\ herr \in {"Invalid SOCKS version",
                 "Client does not support no authentication",
                 "Invalid SOCKS5 request",
                 "Unsupported address type",
                 "Invalid domain name",
                 "HTTP CONNECT request too long",
                 "HTTP CONNECT headers too long",
                 "Failed to parse HTTP CONNECT target"}

\* What the client has sent is a violation: a first byte that selects no
\* protocol, a method list without "no authentication", a request with
\* another version, another command or an address type that is none of
\* IPv4, domain and IPv6.
ViolationRead ==
    \/ client_read # <<>> /\ client_read[1] \notin {5, 67}
    \/ MethodsRead /\ ~HasNoAuth
    \/ /\ RequestRead
       /\ \/ request[1] # 5
          \/ request[2] # 1
          \/ request[4] \notin {1, 3, 4}

\* No connection to a target was asked for or opened, nothing was written
\* to a target and no forwarding task was started.
TargetUntouched ==
    /\ dials = 0
    /\ ~target_open
    /\ ~target_addr.resolved
    /\ target_out = <<>>
    /\ stream = <<>>
    /\ partial = <<>>
    /\ c2t = "idle"
    /\ t2c = "idle"

\* C24: a handshake that ends in a protocol violation (a bad first byte, no
\* "no authentication" method, a bad version or command, an unsupported
\* address type, a CONNECT request that is too long or cannot be parsed)
\* has opened no connection to a target and has written no byte to one.
C24_RejectedTouchesNoTarget ==
    /\ ProtocolViolation => TargetUntouched
    /\ ViolationRead => TargetUntouched

\* A SOCKS5 request with an unsupported address type was read after the
\* method negotiation had succeeded, and the handler has failed on it.
C24_Witness ==
    /\ ProtocolViolation
    /\ herr = "Unsupported address type"
    /\ ViolationRead
    /\ HasNoAuth
    /\ client_out # <<>>
    /\ TargetUntouched

(***************************************************************************)
(* One connection from its first byte to the end of both forwarding tasks  *)
(***************************************************************************)
\* What the client sends through the tunnel right after its handshake.
TunnelData == {<<>>, <<22, 3, 1>>}

\* "CONNECT a:1 HTTP/1.1\r\nHost: a\r\n\r\n"
HttpGoodRequest == SubSeq(HttpGood, 1, Len(HttpGood) - 2)

\* Handshakes the handler accepts: SOCKS5 with one or two offered methods
\* and an IPv4, domain or IPv6 address; HTTP CONNECT with one header line,
\* with two, and with none ("\r\n\r\n" follows the request's own).
TunnelHandshakes ==
    {Greeting(ms) \o <<5, 1, 0>> \o a :
        ms \in {<<0>>, <<2, 0>>},
        a \in {<<SOCKS5_ATYP_IPV4>> \o AddrV4,
               <<SOCKS5_ATYP_DOMAIN>> \o AddrDomain,
               <<SOCKS5_ATYP_IPV6>> \o AddrV6}}
    \cup {HttpGoodRequest, HttpTwoHeaders, HttpNoHeaders}

TunnelStreams == {h \o d : h \in TunnelHandshakes, d \in TunnelData}

\* The policies of the engine handed to forward_with_desync.
TunnelConfigs ==
    { NoConfig,
      [NoConfig EXCEPT !.split = <<SplitConfig(1, NoFlags)>>],
      [NoConfig EXCEPT !.disorder = <<SplitConfig(1, NoFlags)>>],
      [NoConfig EXCEPT !.fake = <<FakeConfig(SplitConfig(2, NoFlags),
                                             SomeData(<<170, 187>>))>>] }

\* handle_client is entered with the accepted stream and a clone of the
\* engine; target_in is what the target sends once it is connected.
TunnelInit ==
    /\ ServerIdle
    /\ PacketsIdle
    /\ overflow_checks = FALSE
    /\ config \in TunnelConfigs
    /\ buffer = <<>>
    /\ epc = "idle"
    /\ EngineStart
    /\ OffsetIdle
    /\ hpc = "sniff"
    /\ client_in \in TunnelStreams
    /\ proto = "none"
    /\ client_read = <<>>
    /\ client_out = <<>>
    /\ client_partial = <<>>
    /\ n_methods = 0
    /\ methods = <<>>
    /\ request = <<>>
    /\ addr = <<>>
    /\ target_addr = NoAddr
    /\ dials = 0
    /\ target_open = FALSE
    /\ req_buffer = <<>>
    /\ last_four = <<>>
    /\ herr = "none"
    /\ c2t = "idle"
    /\ t2c = "idle"
    /\ fwd_read = <<>>
    /\ c2t_last = "none"
    /\ target_out = <<>>
    /\ target_in \in {<<>>, <<7>>}
    /\ target_read = <<>>
    /\ t2c_last = "none"
    /\ t2c_buf = <<>>

TunnelNext ==
    \/ Sniff
    \/ ReadNMethods
    \/ ReadMethods
    \/ SendAuthReply
    \/ ReadRequest
    \/ ReadAddress
    \/ ReadDomain
    \/ ReadPort
    \/ HttpReadLine
    \/ HttpReadHeader
    \/ Resolve
    \/ Dial
    \/ SendReply
    \/ C2tRead
    \/ ApplyDesync
    \/ DefaultSend
    \/ SplitIter
    \/ SplitRest
    \/ DisorderResolve
    \/ DisorderIter
    \/ FakeDecoy
    \/ FakeReal
    \/ C2tApplied
    \/ T2cRead
    \/ T2cWrite
    \/ Join

TunnelSpec == TunnelInit /\ [][TunnelNext]_vars

(***************************************************************************)
(* Claims about the bytes of one connection                                *)
(***************************************************************************)
\* The length of the SOCKS5 handshake that begins the bytes s: VER NMETHODS,
\* the N methods, VER CMD RSV ATYP, the address and the port.
Socks5HandshakeLen(s) ==
    LET n == s[2]
        atyp == s[2 + n + 4]
        address == IF atyp = SOCKS5_ATYP_IPV4 THEN 4
                   ELSE IF atyp = SOCKS5_ATYP_IPV6 THEN 16
                   ELSE 1 + s[2 + n + 5]
    IN  2 + n + 4 + address + 2

\* The header loop of handle_http_connect finds its window equal to
\* CR LF CR LF on the k-th byte of s.
DetectsEnd(s, k) ==
    LET line == StrFind(s, CRLF).val + 2
    IN  /\ k > line
        /\ LastFourAfter(SubSeq(s, line + 1, k)) = CRLFCRLF

\* Every byte of the read r is in the segments segs: they are r cut into
\* pieces in order, or in reverse order, or their last one is r whole.
Carries(segs, r) ==
    \/ Flatten(segs) = r
    \/ Flatten(Reverse(segs)) = r
    \/ segs # <<>> /\ segs[Len(segs)] = r

C25_State ==
    /\ ~ForwardingStarted => fwd_read = <<>> /\ target_out = <<>>
    /\ (ForwardingStarted /\ proto = "socks5") =>
         /\ Len(client_read) = Socks5HandshakeLen(client_read)
         /\ n_methods = client_read[2]
    /\ (ForwardingStarted /\ proto = "http") =>
         /\ client_read = req_buffer
         /\ DetectsEnd(client_read, Len(client_read))
         /\ \A k \in 1..(Len(client_read) - 1) : ~DetectsEnd(client_read, k)
    /\ target_out = PlanAll(AppliedReads)
    /\ \A k \in 1..Len(AppliedReads) :
         Carries(Plan(config, AppliedReads[k]), AppliedReads[k])
    /\ (c2t = "ok" /\ c2t_last = "eof") =>
         /\ client_in = <<>>
         /\ AppliedReads = fwd_read

\* No step drops a client byte or reads one twice, the handshake reads
\* nothing once the forwarding tasks are spawned, and the loop reads
\* nothing before.
C25_Step ==
    /\ client_read' \o Flatten(fwd_read') \o client_in'
         = client_read \o Flatten(fwd_read) \o client_in
    /\ ForwardingStarted => client_read' = client_read
    /\ fwd_read' # fwd_read => ForwardingStarted

\* C25: the handshake consumes exactly the handshake bytes - on the SOCKS5
\* path 2 + N + 4 + address-and-port bytes, on the HTTP CONNECT path the
\* bytes up to and including the one on which the header loop detects the
\* end of the headers - and every client byte after them is read by the
\* loop of forward_with_desync, in order, and is written to the target by
\* the call of apply_desync that returns Ok for its read; none is dropped
\* and none is consumed by the handshake.
C25_HandshakeBytes == []C25_State /\ [][C25_Step]_vars

\* A SOCKS5 handshake with two methods and a domain address, then three
\* tunnel bytes read in two reads and written in reverse order of their
\* pieces, and the end of the client's stream.
C25_Witness ==
    /\ proto = "socks5"
    /\ n_methods = 2
    /\ Len(request) = 4
    /\ request[4] = SOCKS5_ATYP_DOMAIN
    /\ Len(client_read) = 12
    /\ c2t = "ok"
    /\ c2t_last = "eof"
    /\ config.disorder # <<>>
    /\ Len(fwd_read) = 2
    /\ Flatten(fwd_read) = <<22, 3, 1>>
    /\ Len(target_out) = 3

\* An HTTP CONNECT request without header lines: the loop detects the end
\* of the headers on the fourth byte after the request line, and the bytes
\* after that one have reached the target.
TunnelAfterHttp ==
    /\ proto = "http"
    /\ Len(req_buffer) = RequestLineLen + 4
    /\ c2t = "ok"
    /\ c2t_last = "eof"
    /\ Flatten(target_out) = <<13, 10, 22, 3, 1>>

=============================================================================
